---------------------------- MODULE Spec2Model ----------------------------
(***************************************************************************)
(* Verification model of the sentiment aggregation engine                  *)
(* (src/moodmap/analyzer/mood_aggregator.py), of the sentiment count of    *)
(* the command-line report (src/cli/main.py), of the text preprocessor     *)
(* (src/core/preprocessor.py) and of the source-file extraction of         *)
(* src/core/git_extractor.py.                                              *)
(*                                                                         *)
(* Conventions                                                             *)
(*   - a Python str is a sequence of one-character strings;                *)
(*   - a Python dict is a function (record); a key that may be missing is  *)
(*     missing from its DOMAIN and read with Get (dict.get);               *)
(*   - a confidence c is held as the integer 100 * c (0.8 is 80), which is *)
(*     exact for every confidence the program handles here;                *)
(*   - a quotient (mean, percentage, mood score) is held as an exact       *)
(*     fraction [num, den] with den > 0; IEEE rounding is not modelled.    *)
(***************************************************************************)
EXTENDS Integers, Sequences, FiniteSets, TLC

VARIABLES
    op,            \* the operation being run: "language", "region", "time", "report",
                   \* "infer_region", or the name of a text or file function
    repositories,  \* the operation's input: the list of repositories
    repo_index,    \* position of the `for repo in repositories` loop (next repo)
    stats,         \* language_stats / region_stats / time_stats: key -> bucket
    phase,         \* "folding", "finalized" (returned) or "raised" (exception left the call)
    report,        \* generate_json_report: its sentiment_counts
    commits_in,    \* region inference alone: the commit list handed in
    region_out,    \* region inference alone: [called, timezones, region], the
                   \* list `timezones` it built and the region it returned
    arg,           \* a call of a text function: the argument(s) handed in
    ret            \* a call of a text function: [returned, value]

vars == <<op, repositories, repo_index, stats, phase, report, commits_in, region_out,
          arg, ret>>

-----------------------------------------------------------------------------
(* Python values *)

None == "<None>"

\* dict.get(key, default)
Get(d, k, default) == IF k \in DOMAIN d THEN d[k] ELSE default

\* d[key] = value on a dict held as a function
Put(d, k, v) == [x \in DOMAIN d \cup {k} |-> IF x = k THEN v ELSE d[x]]

EmptyDict == [x \in {} |-> 0]

Min(a, b) == IF a <= b THEN a ELSE b

\* s[:n]
Prefix(s, n) == SubSeq(s, 1, Min(n, Len(s)))

RECURSIVE SumSeq(_)
SumSeq(s) == IF s = <<>> THEN 0 ELSE s[1] + SumSeq(Tail(s))

-----------------------------------------------------------------------------
(* str operations *)

UpperChars == <<"A","B","C","D","E","F","G","H","I","J","K","L","M",
                "N","O","P","Q","R","S","T","U","V","W","X","Y","Z">>
LowerChars == <<"a","b","c","d","e","f","g","h","i","j","k","l","m",
                "n","o","p","q","r","s","t","u","v","w","x","y","z">>

LowerChar(c) ==
    IF \E k \in DOMAIN UpperChars : UpperChars[k] = c
    THEN LowerChars[CHOOSE k \in DOMAIN UpperChars : UpperChars[k] = c]
    ELSE c

\* str.lower()
Lower(s) == [k \in 1..Len(s) |-> LowerChar(s[k])]

\* whether w occurs at offset k (0-based) of s
OccursAt(s, w, k) == \A j \in 1..Len(w) : s[k + j] = w[j]

\* `w in s`
Contains(s, w) == \E k \in 0..(Len(s) - Len(w)) : OccursAt(s, w, k)

\* str.find(w) + 1: the 1-based position of the first occurrence, 0 when none
FindFirst(s, w) ==
    IF Contains(s, w)
    THEN 1 + CHOOSE k \in 0..(Len(s) - Len(w)) :
                /\ OccursAt(s, w, k)
                /\ \A m \in 0..(k - 1) : ~OccursAt(s, w, m)
    ELSE 0

\* s.split(ch)[0] for a one-character separator
SplitFirst(s, ch) ==
    LET p == FindFirst(s, <<ch>>) IN IF p = 0 THEN s ELSE SubSeq(s, 1, p - 1)

\* s.split(ch)[1] for a one-character separator that occurs in s
SplitSecond(s, ch) ==
    LET p == FindFirst(s, <<ch>>) IN SplitFirst(SubSeq(s, p + 1, Len(s)), ch)

DigitChars == <<"0","1","2","3","4","5","6","7","8","9">>

IsDigit(c) == \E k \in DOMAIN DigitChars : DigitChars[k] = c

DigitValue(c) == (CHOOSE k \in DOMAIN DigitChars : DigitChars[k] = c) - 1

RECURSIVE DecimalValue(_)
DecimalValue(s) ==
    IF s = <<>> THEN 0
    ELSE 10 * DecimalValue(SubSeq(s, 1, Len(s) - 1)) + DigitValue(s[Len(s)])

AllDigits(s) == s # <<>> /\ \A k \in 1..Len(s) : IsDigit(s[k])

-----------------------------------------------------------------------------
(* Exact fractions: statistics.mean and the `/` of the derived statistics *)

Frac(n, d) == [num |-> n, den |-> d]

FracEq(a, b) == a.num * b.den = b.num * a.den

\* a <= b, for positive denominators
FracLe(a, b) == a.num * b.den <= b.num * a.den

FracOfInt(n) == Frac(n, 1)

\* statistics.mean(xs) of a non-empty list of integers
mean(xs) == Frac(SumSeq(xs), Len(xs))

-----------------------------------------------------------------------------
(* MoodAggregator._mock_sentiment_analysis *)

positive_words ==
    << <<"f","i","x">>, <<"a","d","d">>, <<"i","m","p","r","o","v","e">>,
       <<"e","n","h","a","n","c","e">>, <<"o","p","t","i","m","i","z","e">>,
       <<"u","p","d","a","t","e">>, <<"f","e","a","t","u","r","e">> >>

negative_words ==
    << <<"b","u","g">>, <<"e","r","r","o","r">>, <<"f","a","i","l">>,
       <<"b","r","o","k","e","n">>, <<"r","e","m","o","v","e">>,
       <<"d","e","l","e","t","e">>, <<"d","e","p","r","e","c","a","t","e">> >>

\* sum(1 for word in words if word in message_lower)
WordCount(words, message_lower) ==
    Cardinality({k \in DOMAIN words : Contains(message_lower, words[k])})

\* confidences are 100 * the Python value: 0.7 + count * 0.1 is 70 + count * 10
mock_sentiment_analysis(message) ==
    LET message_lower  == Lower(message)
        positive_count == WordCount(positive_words, message_lower)
        negative_count == WordCount(negative_words, message_lower)
    IN  IF positive_count > negative_count
        THEN [sentiment |-> "POSITIVE", confidence |-> 70 + positive_count * 10]
        ELSE IF negative_count > positive_count
        THEN [sentiment |-> "NEGATIVE", confidence |-> 70 + negative_count * 10]
        ELSE [sentiment |-> "NEUTRAL", confidence |-> 50]

\* MoodAggregator._analyze_commits_sentiment: every commit gets the mock label,
\* {**commit, 'sentiment': sentiment} replacing a label it already carries
analyze_commits_sentiment(commits) ==
    [k \in 1..Len(commits) |->
        Put(commits[k], "sentiment",
            mock_sentiment_analysis(Get(commits[k], "message", <<>>)))]

-----------------------------------------------------------------------------
(* Derived statistics *)

RECURSIVE SumValuesOver(_, _)
SumValuesOver(d, keys) ==
    IF keys = {} THEN 0
    ELSE LET k == CHOOSE x \in keys : TRUE
         IN  d[k] + SumValuesOver(d, keys \ {k})

\* sum(d.values())
SumValues(d) == SumValuesOver(d, DOMAIN d)

\* a variant that returns the shares without the factor 100
calculate_sentiment_distribution_as_shares(sentiment_counts) ==
    LET total == SumValues(sentiment_counts)
    IN  IF total = 0
        THEN [POSITIVE |-> FracOfInt(0), NEUTRAL |-> FracOfInt(0), NEGATIVE |-> FracOfInt(0)]
        ELSE [s \in DOMAIN sentiment_counts |-> Frac(sentiment_counts[s], total)]

\* MoodAggregator._calculate_sentiment_distribution
calculate_sentiment_distribution(sentiment_counts) ==
    LET total == SumValues(sentiment_counts)
    IN  IF total = 0
        THEN [POSITIVE |-> FracOfInt(0), NEUTRAL |-> FracOfInt(0), NEGATIVE |-> FracOfInt(0)]
        ELSE [s \in DOMAIN sentiment_counts |-> Frac(sentiment_counts[s] * 100, total)]

\* a variant that divides by the POSITIVE and NEGATIVE commits only
calculate_mood_score_ignoring_neutral(sentiment_counts) ==
    LET positive == Get(sentiment_counts, "POSITIVE", 0)
        negative == Get(sentiment_counts, "NEGATIVE", 0)
    IN  IF SumValues(sentiment_counts) = 0
        THEN FracOfInt(0)
        ELSE Frac(positive - negative, positive + negative)

\* MoodAggregator._calculate_mood_score
calculate_mood_score(sentiment_counts) ==
    LET total == SumValues(sentiment_counts)
    IN  IF total = 0
        THEN FracOfInt(0)
        ELSE Frac(Get(sentiment_counts, "POSITIVE", 0)
                    - Get(sentiment_counts, "NEGATIVE", 0), total)

\* statistics.mean(confidence_scores) if confidence_scores else 0
average_confidence(confidence_scores) ==
    IF confidence_scores # <<>> THEN mean(confidence_scores) ELSE FracOfInt(0)

\* the three derived fields every aggregate_* adds to a bucket when it finalizes
DerivedFields(b) ==
    [average_confidence     |-> average_confidence(b.confidence_scores),
     sentiment_distribution |-> calculate_sentiment_distribution(b.sentiment_counts),
     mood_score             |-> calculate_mood_score(b.sentiment_counts)]

ZeroCounts == [POSITIVE |-> 0, NEUTRAL |-> 0, NEGATIVE |-> 0]

\* a variant that assigns the count (= 1) where the code adds to it (+= 1)
CountLabel_assigning(st, label) ==
    LET sentiment  == Get(label, "sentiment", "NEUTRAL")
        confidence == Get(label, "confidence", 0)
    IN  IF sentiment \notin DOMAIN st.bucket.sentiment_counts
        THEN [st EXCEPT !.raised = "KeyError"]
        ELSE [st EXCEPT !.bucket.sentiment_counts[sentiment] = 1,
                        !.bucket.confidence_scores = Append(@, confidence)]

\* the fold of one analyzed commit's label into a bucket, shared by the three
\* aggregate_* loops: sentiment_counts[sentiment] += 1 raises KeyError for a
\* category that is no key of the plain dict
CountLabel(st, label) ==
    LET sentiment  == Get(label, "sentiment", "NEUTRAL")
        confidence == Get(label, "confidence", 0)
    IN  IF sentiment \notin DOMAIN st.bucket.sentiment_counts
        THEN [st EXCEPT !.raised = "KeyError"]
        ELSE [st EXCEPT !.bucket.sentiment_counts[sentiment] = @ + 1,
                        !.bucket.confidence_scores = Append(@, confidence)]

NotRaised == "no"

-----------------------------------------------------------------------------
(* MoodAggregator.aggregate_by_language *)

TopThreshold == 80      \* confidence > 0.8
TopK == 10              \* sorted(...)[:10]
MessageCut == 100       \* commit['message'][:100]

NewLanguageBucket ==
    [total_repos |-> 0, total_commits |-> 0, sentiment_counts |-> ZeroCounts,
     confidence_scores |-> <<>>, repositories |-> <<>>,
     top_positive_commits |-> <<>>, top_negative_commits |-> <<>>]

TopEntry(repo, commit, confidence) ==
    [repo |-> repo.full_name, message |-> Prefix(commit.message, MessageCut),
     confidence |-> confidence]

\* whether a commit labelled POSITIVE / NEGATIVE is tracked as a top commit
TracksTop(confidence) == confidence > TopThreshold

\* lines 53-73: one iteration of `for commit in analyzed_commits`
FoldLanguageCommit(st, repo, commit) ==
    IF "sentiment" \notin DOMAIN commit THEN st
    ELSE
        LET sentiment  == Get(commit.sentiment, "sentiment", "NEUTRAL")
            confidence == Get(commit.sentiment, "confidence", 0)
            counted    == CountLabel(st, commit.sentiment)
        IN  IF counted.raised # NotRaised THEN counted
            ELSE IF sentiment = "POSITIVE" /\ TracksTop(confidence)
            THEN [counted EXCEPT !.bucket.top_positive_commits =
                                    Append(@, TopEntry(repo, commit, confidence))]
            ELSE IF sentiment = "NEGATIVE" /\ TracksTop(confidence)
            THEN [counted EXCEPT !.bucket.top_negative_commits =
                                    Append(@, TopEntry(repo, commit, confidence))]
            ELSE counted

RECURSIVE FoldLanguageCommits(_, _, _, _)
FoldLanguageCommits(st, repo, analyzed, k) ==
    IF k > Len(analyzed) \/ st.raised # NotRaised THEN st
    ELSE FoldLanguageCommits(FoldLanguageCommit(st, repo, analyzed[k]),
                             repo, analyzed, k + 1)

\* lines 30-73: one iteration of `for repo in repositories`;
\* acc is [stats, raised]
FoldLanguageRepo(acc, repo) ==
    LET primary_language == Get(repo, "primary_language", None)
        commits          == Get(repo, "commits", <<>>)
    IN  IF primary_language = None \/ primary_language = "" THEN acc
        ELSE IF commits = <<>> THEN acc
        ELSE
            LET analyzed_commits == analyze_commits_sentiment(commits)
                lang_stats == Get(acc.stats, primary_language, NewLanguageBucket)
                updated == [lang_stats EXCEPT
                    !.total_repos   = @ + 1,
                    !.total_commits = @ + Len(analyzed_commits),
                    !.repositories  = Append(@, [name |-> repo.full_name,
                                                 stars |-> repo.stars,
                                                 commits_count |-> Len(analyzed_commits)])]
                st == FoldLanguageCommits([bucket |-> updated, raised |-> NotRaised],
                                          repo, analyzed_commits, 1)
            IN  [stats  |-> Put(acc.stats, primary_language, st.bucket),
                 raised |-> st.raised]

\* a variant of an unstable sort: x goes before the elements of equal confidence
InsertDescending_before_equals(sorted, x) ==
    LET n == Cardinality({k \in 1..Len(sorted) : sorted[k].confidence > x.confidence})
    IN  SubSeq(sorted, 1, n) \o <<x>> \o SubSeq(sorted, n + 1, Len(sorted))

\* where x goes in a list already sorted by descending confidence: after every
\* element whose confidence is not smaller (sorted(..., reverse=True) is stable)
InsertDescending(sorted, x) ==
    LET n == Cardinality({k \in 1..Len(sorted) : sorted[k].confidence >= x.confidence})
    IN  SubSeq(sorted, 1, n) \o <<x>> \o SubSeq(sorted, n + 1, Len(sorted))

RECURSIVE SortedByConfidenceDesc(_)
SortedByConfidenceDesc(s) ==
    IF s = <<>> THEN <<>>
    ELSE InsertDescending(SortedByConfidenceDesc(SubSeq(s, 1, Len(s) - 1)), s[Len(s)])

\* sorted(commits, key=lambda x: x['confidence'], reverse=True)[:10]
TopCommits(commits) == Prefix(SortedByConfidenceDesc(commits), TopK)

\* lines 76-91: the finalization of one language bucket
FinalizeLanguageBucket(b) ==
    [b EXCEPT !.top_positive_commits = TopCommits(@),
              !.top_negative_commits = TopCommits(@)] @@ DerivedFields(b)

-----------------------------------------------------------------------------
(* MoodAggregator._detect_region_from_commits *)

SampleSize == 10        \* commits[:10]

IsSpace(c) == c = " "

RECURSIVE Strip(_)
Strip(s) ==
    IF s = <<>> THEN s
    ELSE IF IsSpace(s[1]) THEN Strip(Tail(s))
    ELSE IF IsSpace(s[Len(s)]) THEN Strip(SubSeq(s, 1, Len(s) - 1))
    ELSE s

\* int(s): [ok, value]; ok = FALSE is ValueError.  Surrounding blanks and one
\* leading sign are accepted, as int() accepts them.
py_int(s) ==
    LET t      == Strip(s)
        signed == t # <<>> /\ t[1] \in {"+", "-"}
        digits == IF signed THEN Tail(t) ELSE t
    IN  IF AllDigits(digits)
        THEN [ok |-> TRUE,
              value |-> IF signed /\ t[1] = "-" THEN -DecimalValue(digits)
                        ELSE DecimalValue(digits)]
        ELSE [ok |-> FALSE, value |-> 0]

\* lines 246-256, one commit of the sample: what it appends to `timezones`
\* (<<>> when nothing is appended: no date, no '+' or '-', or ValueError)
OffsetOfDate(date_str) ==
    IF date_str = <<>> THEN <<>>
    ELSE IF Contains(date_str, <<"+">>)
    THEN LET offset == SplitFirst(SplitSecond(date_str, "+"), ":")
             parsed == py_int(offset)
         IN  IF parsed.ok THEN <<parsed.value>> ELSE <<>>
    ELSE IF Contains(date_str, <<"-">>)
    THEN LET offset == SplitFirst(SplitSecond(date_str, "-"), ":")
             parsed == py_int(offset)
         IN  IF parsed.ok THEN <<-parsed.value>> ELSE <<>>
    ELSE <<>>

\* commit.get('author', {}).get('date', '')
AuthorDate(commit) == Get(Get(commit, "author", EmptyDict), "date", <<>>)

\* a variant that samples every commit
RegionSample_unbounded(commits) == commits

\* the commits sampled for the region: commits[:10]
RegionSample(commits) == Prefix(commits, SampleSize)

RECURSIVE TimezonesOf(_)
TimezonesOf(sample) ==
    IF sample = <<>> THEN <<>>
    ELSE OffsetOfDate(AuthorDate(sample[1])) \o TimezonesOf(Tail(sample))

\* a <= m <= b for a mean m held as a fraction
Between(a, m, b) == FracLe(FracOfInt(a), m) /\ FracLe(m, FracOfInt(b))

\* a variant with the two Asian rules in the other order
RegionOfMean_east_first(avg_timezone) ==
    IF      Between(-12, avg_timezone, -8) THEN "Americas_West"
    ELSE IF Between(-7, avg_timezone, -5)  THEN "Americas_Central"
    ELSE IF Between(-4, avg_timezone, -2)  THEN "Americas_East"
    ELSE IF Between(-1, avg_timezone, 1)   THEN "Europe_West"
    ELSE IF Between(2, avg_timezone, 4)    THEN "Europe_East"
    ELSE IF Between(5, avg_timezone, 6)    THEN "Asia_India"
    ELSE IF Between(8, avg_timezone, 10)   THEN "Asia_East"
    ELSE IF Between(7, avg_timezone, 9)    THEN "Asia_Southeast"
    ELSE "Other"

\* lines 264-281: the if / elif chain over avg_timezone
RegionOfMean(avg_timezone) ==
    IF      Between(-12, avg_timezone, -8) THEN "Americas_West"
    ELSE IF Between(-7, avg_timezone, -5)  THEN "Americas_Central"
    ELSE IF Between(-4, avg_timezone, -2)  THEN "Americas_East"
    ELSE IF Between(-1, avg_timezone, 1)   THEN "Europe_West"
    ELSE IF Between(2, avg_timezone, 4)    THEN "Europe_East"
    ELSE IF Between(5, avg_timezone, 6)    THEN "Asia_India"
    ELSE IF Between(7, avg_timezone, 9)    THEN "Asia_Southeast"
    ELSE IF Between(8, avg_timezone, 10)   THEN "Asia_East"
    ELSE "Other"

detect_region_from_commits(commits) ==
    IF commits = <<>> THEN None
    ELSE LET timezones == TimezonesOf(RegionSample(commits))
         IN  IF timezones = <<>> THEN None
             ELSE RegionOfMean(mean(timezones))

-----------------------------------------------------------------------------
(* MoodAggregator.aggregate_by_region *)

TopLanguages == 5       \* most_common(5)

\* a variant whose new bucket already counts one repository
NewRegionBucket_counting_one ==
    [total_repos |-> 1, total_commits |-> 0, sentiment_counts |-> ZeroCounts,
     confidence_scores |-> <<>>, languages |-> <<>>, repositories |-> <<>>]

NewRegionBucket ==
    [total_repos |-> 0, total_commits |-> 0, sentiment_counts |-> ZeroCounts,
     confidence_scores |-> <<>>, languages |-> <<>>, repositories |-> <<>>]

\* Counter[key] += 1; the Counter is held as its items in insertion order
CounterIncrement(counter, key) ==
    IF \E k \in DOMAIN counter : counter[k].key = key
    THEN [k \in DOMAIN counter |->
            IF counter[k].key = key
            THEN [counter[k] EXCEPT !.count = @ + 1] ELSE counter[k]]
    ELSE Append(counter, [key |-> key, count |-> 1])

InsertByCount(sorted, x) ==
    LET n == Cardinality({k \in 1..Len(sorted) : sorted[k].count >= x.count})
    IN  SubSeq(sorted, 1, n) \o <<x>> \o SubSeq(sorted, n + 1, Len(sorted))

RECURSIVE SortedByCountDesc(_)
SortedByCountDesc(s) ==
    IF s = <<>> THEN <<>>
    ELSE InsertByCount(SortedByCountDesc(SubSeq(s, 1, Len(s) - 1)), s[Len(s)])

\* Counter.most_common(n)
most_common(counter, n) == Prefix(SortedByCountDesc(counter), n)

RECURSIVE FoldRegionCommits(_, _, _)
FoldRegionCommits(st, analyzed, k) ==
    IF k > Len(analyzed) \/ st.raised # NotRaised THEN st
    ELSE FoldRegionCommits(
            IF "sentiment" \in DOMAIN analyzed[k]
            THEN CountLabel(st, analyzed[k].sentiment) ELSE st,
            analyzed, k + 1)

\* lines 109-140: one iteration of `for repo in repositories`
FoldRegionRepo(acc, repo) ==
    LET commits == Get(repo, "commits", <<>>)
        region  == detect_region_from_commits(commits)
    IN  IF region = None THEN acc
        ELSE
            LET analyzed_commits == analyze_commits_sentiment(commits)
                primary_language == Get(repo, "primary_language", None)
                reg_stats == Get(acc.stats, region, NewRegionBucket)
                updated == [reg_stats EXCEPT
                    !.total_repos   = @ + 1,
                    !.total_commits = @ + Len(analyzed_commits),
                    !.repositories  = Append(@, [name |-> repo.full_name,
                                                 language |-> primary_language,
                                                 stars |-> repo.stars])]
                st == FoldRegionCommits([bucket |-> updated, raised |-> NotRaised],
                                        analyzed_commits, 1)
                counted == IF primary_language = None \/ primary_language = ""
                           THEN st.bucket
                           ELSE [st.bucket EXCEPT
                                    !.languages = CounterIncrement(@, primary_language)]
            IN  IF st.raised # NotRaised
                THEN [stats |-> Put(acc.stats, region, st.bucket), raised |-> st.raised]
                ELSE [stats |-> Put(acc.stats, region, counted), raised |-> NotRaised]

\* lines 143-147: the finalization of one region bucket
FinalizeRegionBucket(b) ==
    b @@ DerivedFields(b) @@ [top_languages |-> most_common(b.languages, TopLanguages)]

-----------------------------------------------------------------------------
(* datetime: datetime.fromisoformat, comparison, strftime('%Y-%m-%d') *)

\* str.replace('Z', '+00:00')
RECURSIVE ReplaceZ(_)
ReplaceZ(s) ==
    IF s = <<>> THEN <<>>
    ELSE (IF s[1] = "Z" THEN <<"+","0","0",":","0","0">> ELSE <<s[1]>>)
            \o ReplaceZ(Tail(s))

IsLeap(y) == (y % 4 = 0 /\ y % 100 # 0) \/ y % 400 = 0

DaysInMonth(y, m) ==
    IF m = 2 THEN (IF IsLeap(y) THEN 29 ELSE 28)
    ELSE IF m \in {4, 6, 9, 11} THEN 30 ELSE 31

RECURSIVE DaysBeforeMonth(_, _)
DaysBeforeMonth(y, m) ==
    IF m <= 1 THEN 0 ELSE DaysBeforeMonth(y, m - 1) + DaysInMonth(y, m - 1)

\* date.toordinal()
Ordinal(y, m, d) ==
    (y - 1) * 365 + ((y - 1) \div 4) - ((y - 1) \div 100) + ((y - 1) \div 400)
        + DaysBeforeMonth(y, m) + d

Num(s, a, b) == DecimalValue(SubSeq(s, a, b))

DigitsAt(s, a, b) == \A k \in a..b : IsDigit(s[k])

DateShape(s) ==
    /\ Len(s) >= 10
    /\ DigitsAt(s, 1, 4) /\ s[5] = "-" /\ DigitsAt(s, 6, 7) /\ s[8] = "-"
    /\ DigitsAt(s, 9, 10)
    /\ Num(s, 1, 4) >= 1
    /\ Num(s, 6, 7) \in 1..12
    /\ Num(s, 9, 10) \in 1..DaysInMonth(Num(s, 1, 4), Num(s, 6, 7))

TimeShape(s) ==
    /\ Len(s) >= 19
    /\ DigitsAt(s, 12, 13) /\ s[14] = ":" /\ DigitsAt(s, 15, 16) /\ s[17] = ":"
    /\ DigitsAt(s, 18, 19)
    /\ Num(s, 12, 13) < 24 /\ Num(s, 15, 16) < 60 /\ Num(s, 18, 19) < 60

OffsetShape(s) ==
    /\ Len(s) = 25
    /\ s[20] \in {"+", "-"}
    /\ DigitsAt(s, 21, 22) /\ s[23] = ":" /\ DigitsAt(s, 24, 25)
    /\ Num(s, 21, 22) < 24 /\ Num(s, 24, 25) < 60

\* datetime.fromisoformat(s) for the forms YYYY-MM-DD, YYYY-MM-DD?HH:MM:SS and
\* YYYY-MM-DD?HH:MM:SS(+|-)HH:MM; every other string is ValueError (ok = FALSE).
\* aware: whether the datetime carries a tzinfo.
fromisoformat(s) ==
    LET bad == [ok |-> FALSE, aware |-> FALSE, year |-> 0, month |-> 0, day |-> 0,
                second |-> 0]
        at(aware, sec) ==
               [ok |-> TRUE, aware |-> aware, year |-> Num(s, 1, 4),
                month |-> Num(s, 6, 7), day |-> Num(s, 9, 10), second |-> sec]
        secs == Num(s, 12, 13) * 3600 + Num(s, 15, 16) * 60 + Num(s, 18, 19)
    IN  IF ~DateShape(s) THEN bad
        ELSE IF Len(s) = 10 THEN at(FALSE, 0)
        ELSE IF ~TimeShape(s) THEN bad
        ELSE IF Len(s) = 19 THEN at(FALSE, secs)
        ELSE IF OffsetShape(s) THEN at(TRUE, secs)
        ELSE bad

RECURSIVE ZeroPad(_, _)
ZeroPad(n, width) ==
    IF width = 0 THEN <<>>
    ELSE ZeroPad(n \div 10, width - 1) \o <<DigitChars[(n % 10) + 1]>>

\* datetime.strftime('%Y-%m-%d')
strftime_ymd(dt) ==
    ZeroPad(dt.year, 4) \o <<"-">> \o ZeroPad(dt.month, 2) \o <<"-">> \o ZeroPad(dt.day, 2)

-----------------------------------------------------------------------------
(* MoodAggregator.aggregate_by_time_period *)

PeriodDays == 30        \* period_days: int = 30

\* datetime.now() of the run, as an ordinal day and a second of the day
NowOrdinal == Ordinal(2024, 6, 30)
NowSecond == 0

\* commit_date >= datetime.now() - timedelta(days=period_days)
WithinPeriod(commit_date) ==
    LET o == Ordinal(commit_date.year, commit_date.month, commit_date.day)
    IN  o > NowOrdinal - PeriodDays
            \/ (o = NowOrdinal - PeriodDays /\ commit_date.second >= NowSecond)

NewTimeBucket ==
    [total_commits |-> 0, sentiment_counts |-> ZeroCounts,
     confidence_scores |-> <<>>, repositories |-> {}]

\* lines 168-187: one iteration of `for commit in analyzed_commits`.
\* KeyError and ValueError are caught (the commit is skipped, what was already
\* written stays); TypeError, raised by comparing an aware commit date with
\* the naive cutoff, is not caught.
FoldTimeCommit(acc, repo, commit) ==
    IF "author" \notin DOMAIN commit \/ "date" \notin DOMAIN commit.author
    THEN acc
    ELSE
        LET commit_date == fromisoformat(ReplaceZ(commit.author.date)) IN
        IF ~commit_date.ok THEN acc
        ELSE IF commit_date.aware THEN [acc EXCEPT !.raised = "TypeError"]
        ELSE IF ~WithinPeriod(commit_date) THEN acc
        ELSE IF "sentiment" \notin DOMAIN commit THEN acc
        ELSE
            LET period_key == strftime_ymd(commit_date)
                b0 == Get(acc.stats, period_key, NewTimeBucket)
                b1 == [b0 EXCEPT !.total_commits = @ + 1]
                st == CountLabel([bucket |-> b1, raised |-> NotRaised], commit.sentiment)
                b2 == IF st.raised # NotRaised THEN b1
                      ELSE [st.bucket EXCEPT !.repositories = @ \cup {repo.full_name}]
            IN  [acc EXCEPT !.stats = Put(acc.stats, period_key, b2)]

RECURSIVE FoldTimeCommits(_, _, _, _)
FoldTimeCommits(acc, repo, analyzed, k) ==
    IF k > Len(analyzed) \/ acc.raised # NotRaised THEN acc
    ELSE FoldTimeCommits(FoldTimeCommit(acc, repo, analyzed[k]), repo, analyzed, k + 1)

\* lines 163-187: one iteration of `for repo in repositories`
FoldTimeRepo(acc, repo) ==
    FoldTimeCommits(acc, repo,
                    analyze_commits_sentiment(Get(repo, "commits", <<>>)), 1)

\* lines 190-196: the finalization of one time bucket
FinalizeTimeBucket(b) ==
    [f \in DOMAIN b \ {"repositories"} |-> b[f]]
        @@ [unique_repositories |-> Cardinality(b.repositories)]
        @@ DerivedFields(b)

-----------------------------------------------------------------------------
(* cli generate_json_report, lines 257-262: the sentiment count *)

RECURSIVE CountReportCommits(_, _, _)
CountReportCommits(st, commits, k) ==
    IF k > Len(commits) \/ st.raised # NotRaised THEN st
    ELSE
        LET commit == commits[k]
            sentiment == Get(commit.sentiment, "sentiment", "NEUTRAL")
        IN  CountReportCommits(
                IF "sentiment" \notin DOMAIN commit THEN st
                ELSE IF sentiment \notin DOMAIN st.sentiment_counts
                THEN [st EXCEPT !.raised = "KeyError"]
                ELSE [st EXCEPT !.sentiment_counts[sentiment] = @ + 1],
                commits, k + 1)

report_sentiment_counts(commits) ==
    CountReportCommits([sentiment_counts |-> ZeroCounts, raised |-> NotRaised],
                       commits, 1)

-----------------------------------------------------------------------------
(* The inputs: commit messages, author dates, commits and repositories *)

MsgAddFeature == <<"A","d","d"," ","f","e","a","t","u","r","e">>
    \* "Add feature"
MsgFixAddUpdate == <<"f","i","x"," ","a","d","d"," ","u","p","d","a","t","e">>
    \* "fix add update"
MsgImproveOptimize == <<"I","m","p","r","o","v","e"," ","a","n","d"," ","o","p","t","i","m","i","z","e">>
    \* "Improve and optimize"
MsgEnhanceAddFeature == <<"E","n","h","a","n","c","e",":"," ","a","d","d"," ","f","e","a","t","u","r","e">>
    \* "Enhance: add feature"
MsgFixUpdate == <<"f","i","x",","," ","u","p","d","a","t","e">>
    \* "fix, update"
MsgFixTypo == <<"F","i","x"," ","t","y","p","o">>
    \* "Fix typo"
MsgPrefix == <<"p","r","e","f","i","x">>
    \* "prefix"
MsgRemoveBroken == <<"r","e","m","o","v","e"," ","b","r","o","k","e","n">>
    \* "remove broken"
MsgDeleteBrokenFails == <<"D","e","l","e","t","e"," ","b","r","o","k","e","n",","," ","f","a","i","l","s">>
    \* "Delete broken, fails"
MsgBug == <<"b","u","g">>
    \* "bug"
MsgFixBug == <<"f","i","x"," ","b","u","g">>
    \* "fix bug"
MsgDocs == <<"d","o","c","s">>
    \* "docs"
DateJune10 == <<"2","0","2","4","-","0","6","-","1","0","T","1","0",":","3","0",":","0","0">>
    \* "2024-06-10T10:30:00"
DateJune10Late == <<"2","0","2","4","-","0","6","-","1","0","T","2","3",":","5","9",":","5","9">>
    \* "2024-06-10T23:59:59"
DateJune20 == <<"2","0","2","4","-","0","6","-","2","0","T","0","8",":","0","0",":","0","0">>
    \* "2024-06-20T08:00:00"
DateJan02 == <<"2","0","2","4","-","0","1","-","0","2","T","1","2",":","0","0",":","0","0">>
    \* "2024-01-02T12:00:00"
DateCutoff == <<"2","0","2","4","-","0","5","-","3","1","T","0","0",":","0","0",":","0","0">>
    \* "2024-05-31T00:00:00"
DateBeforeCutoff == <<"2","0","2","4","-","0","5","-","3","0","T","2","3",":","5","9",":","5","9">>
    \* "2024-05-30T23:59:59"
DateTokyo == <<"2","0","2","4","-","0","6","-","1","0","T","1","0",":","3","0",":","0","0","+","0","9",":","0","0">>
    \* "2024-06-10T10:30:00+09:00"
DateZulu == <<"2","0","2","4","-","0","6","-","1","2","T","0","8",":","0","0",":","0","0","Z">>
    \* "2024-06-12T08:00:00Z"
DateInformal == <<"J","u","n","e"," ","1","0"," ","+","0","9",":","0","0">>
    \* "June 10 +09:00"
DateUnparseable == <<"y","e","s","t","e","r","d","a","y">>
    \* "yesterday"

\* a commit as the collector builds it (trending_fetcher.get_repository_commits)
Commit(message, date) ==
    [message |-> message, author |-> [name |-> "dev", date |-> date]]

\* a commit that already carries a label from the external classifier
Labelled(commit, category, confidence) ==
    commit @@ [sentiment |-> [sentiment |-> category, confidence |-> confidence]]

RepoAlpha ==
    [full_name |-> "org/alpha", stars |-> 10, primary_language |-> "Python",
     commits |-> << Labelled(Commit(MsgAddFeature, DateJune10), "NEGATIVE", 95),
                    Commit(MsgFixTypo, DateJune10Late),
                    Labelled(Commit(MsgBug, DateJune20), "NEGATIVE", 80),
                    Commit(MsgFixBug, DateCutoff),
                    Commit(MsgRemoveBroken, DateBeforeCutoff) >>]

\* eleven commits that are all tracked as top positive commits; the first ten
\* are the region sample
RepoBeta ==
    [full_name |-> "org/beta", stars |-> 20, primary_language |-> "Python",
     commits |-> << Commit(MsgAddFeature, DateJune10),
                    Commit(MsgFixAddUpdate, DateJune10),
                    Commit(MsgImproveOptimize, DateJune10),
                    Commit(MsgEnhanceAddFeature, DateJune20),
                    Commit(MsgFixUpdate, DateJune20),
                    Commit(MsgAddFeature, DateJune20),
                    Commit(MsgFixAddUpdate, DateJune10),
                    Commit(MsgImproveOptimize, DateJune10),
                    Commit(MsgFixUpdate, DateJune10),
                    Commit(MsgEnhanceAddFeature, DateJune10),
                    Commit(MsgImproveOptimize, DateInformal) >>]

RepoGamma ==
    [full_name |-> "org/gamma", stars |-> 30, primary_language |-> "Go",
     commits |-> << Commit(MsgRemoveBroken, DateTokyo),
                    Commit(MsgDeleteBrokenFails, DateZulu) >>]

\* no primary language
RepoDelta ==
    [full_name |-> "org/delta", stars |-> 40,
     commits |-> << Commit(MsgDocs, DateJune20),
                    Labelled(Commit(MsgPrefix, DateJune10Late), "ERROR", 0) >>]

\* no commits
RepoEpsilon ==
    [full_name |-> "org/epsilon", stars |-> 50, primary_language |-> "Go",
     commits |-> << >>]

RepoZeta ==
    [full_name |-> "org/zeta", stars |-> 60, primary_language |-> "Go",
     commits |-> << Commit(MsgRemoveBroken, DateJan02),
                    Commit(MsgDeleteBrokenFails, DateUnparseable),
                    [message |-> MsgBug],
                    Labelled([author |-> [name |-> "dev", date |-> DateJune20]],
                             "POSITIVE", 99),
                    Labelled(Commit(MsgDeleteBrokenFails, DateJune20), "ERROR", 0) >>]

RepoCatalogue == {RepoAlpha, RepoBeta, RepoGamma, RepoDelta, RepoEpsilon, RepoZeta}

MaxRepos == 2

RepoLists == UNION {[1..n -> RepoCatalogue] : n \in 0..MaxRepos}

RECURSIVE AllCommits(_)
AllCommits(repos) ==
    IF repos = <<>> THEN <<>>
    ELSE Get(repos[1], "commits", <<>>) \o AllCommits(Tail(repos))

-----------------------------------------------------------------------------
(* The aggregation operations as a state machine *)

Operations == {"language", "region", "time", "report"}

NoRegionCall == [called |-> FALSE, timezones |-> <<>>, region |-> None]

\* no call of a text function has returned
NoReturn == [returned |-> FALSE, value |-> None]

Init ==
    /\ op \in Operations
    /\ repositories \in RepoLists
    /\ repo_index = 1
    /\ stats = EmptyDict
    /\ phase = "folding"
    /\ report = ZeroCounts
    /\ commits_in = <<>>
    /\ region_out = NoRegionCall
    /\ arg = None
    /\ ret = NoReturn

\* a variant that computes the derived fields of every bucket after each
\* repository
FoldOne_deriving(o, acc, repo) ==
    LET folded == IF o = "language" THEN FoldLanguageRepo(acc, repo)
                  ELSE IF o = "region" THEN FoldRegionRepo(acc, repo)
                  ELSE FoldTimeRepo(acc, repo)
    IN  [folded EXCEPT !.stats =
            [k \in DOMAIN folded.stats |-> folded.stats[k] @@ DerivedFields(folded.stats[k])]]

\* the body of `for repo in repositories` of operation o
FoldOne(o, acc, repo) ==
    IF o = "language" THEN FoldLanguageRepo(acc, repo)
    ELSE IF o = "region" THEN FoldRegionRepo(acc, repo)
    ELSE FoldTimeRepo(acc, repo)

\* the body of the loop over the buckets that follows it
FinalizeBucket(o, b) ==
    IF o = "language" THEN FinalizeLanguageBucket(b)
    ELSE IF o = "region" THEN FinalizeRegionBucket(b)
    ELSE FinalizeTimeBucket(b)

\* one iteration of the repository loop of operation o
FoldStep(o) ==
    /\ op = o
    /\ phase = "folding"
    /\ repo_index <= Len(repositories)
    /\ LET acc == FoldOne(o, [stats |-> stats, raised |-> NotRaised],
                          repositories[repo_index])
       IN  /\ stats' = acc.stats
           /\ phase' = IF acc.raised # NotRaised THEN "raised" ELSE "folding"
    /\ repo_index' = repo_index + 1
    /\ UNCHANGED <<op, repositories, report, commits_in, region_out, arg, ret>>

\* the loop over the buckets after the repository loop, and the return
FinalizeStep(o) ==
    /\ op = o
    /\ phase = "folding"
    /\ repo_index > Len(repositories)
    /\ stats' = [k \in DOMAIN stats |-> FinalizeBucket(o, stats[k])]
    /\ phase' = "finalized"
    /\ UNCHANGED <<op, repositories, repo_index, report, commits_in, region_out, arg, ret>>

FoldLanguage == FoldStep("language")

FinalizeLanguage == FinalizeStep("language")

FoldRegion == FoldStep("region")

FinalizeRegion == FinalizeStep("region")

FoldTime == FoldStep("time")

FinalizeTime == FinalizeStep("time")

\* generate_json_report over the commits of the repositories
GenerateJsonReport ==
    /\ op = "report"
    /\ phase = "folding"
    /\ LET counted == report_sentiment_counts(AllCommits(repositories))
       IN  /\ report' = counted.sentiment_counts
           /\ phase' = IF counted.raised # NotRaised THEN "raised" ELSE "finalized"
    /\ UNCHANGED <<op, repositories, repo_index, stats, commits_in, region_out, arg, ret>>

Next ==
    \/ FoldLanguage
    \/ FinalizeLanguage
    \/ FoldRegion
    \/ FinalizeRegion
    \/ FoldTime
    \/ FinalizeTime
    \/ GenerateJsonReport

Spec == Init /\ [][Next]_vars

-----------------------------------------------------------------------------
(* What the claims speak about: the commits behind a bucket *)

Aggregations == {"language", "region", "time"}

Returned == op \in Aggregations /\ phase = "finalized"

\* <<repo, commit>> for every commit of the input, in fold order
RECURSIVE CommitPairs(_)
CommitPairs(repos) ==
    IF repos = <<>> THEN <<>>
    ELSE LET commits == Get(repos[1], "commits", <<>>)
         IN  [k \in 1..Len(commits) |-> <<repos[1], commits[k]>>]
                \o CommitPairs(Tail(repos))

\* the bucket key a commit of a repository is folded under by operation o,
\* None when the repository or the commit is left out
KeyUnder(o, repo, commit) ==
    IF o = "language" THEN Get(repo, "primary_language", None)
    ELSE IF o = "region" THEN detect_region_from_commits(Get(repo, "commits", <<>>))
    ELSE LET d == fromisoformat(ReplaceZ(AuthorDate(commit)))
         IN  IF d.ok /\ WithinPeriod(d) THEN strftime_ymd(d) ELSE None

RECURSIVE SelectPairs(_, _, _)
SelectPairs(pairs, o, key) ==
    IF pairs = <<>> THEN <<>>
    ELSE (IF KeyUnder(o, pairs[1][1], pairs[1][2]) = key THEN <<pairs[1]>> ELSE <<>>)
            \o SelectPairs(Tail(pairs), o, key)

\* the commits of `repos` folded under `key` by operation o, in fold order
CommitsUnder(repos, o, key) == SelectPairs(CommitPairs(repos), o, key)

HasLabel(commit) == "sentiment" \in DOMAIN commit

\* the externally supplied labels among a list of <<repo, commit>>, in order
RECURSIVE SuppliedLabels(_)
SuppliedLabels(pairs) ==
    IF pairs = <<>> THEN <<>>
    ELSE (IF HasLabel(pairs[1][2]) THEN <<pairs[1][2].sentiment>> ELSE <<>>)
            \o SuppliedLabels(Tail(pairs))

CountCategory(labels, category) ==
    Cardinality({k \in 1..Len(labels) : labels[k].sentiment = category})

Categories == {"POSITIVE", "NEUTRAL", "NEGATIVE"}

KeysWithSuppliedLabel(o) ==
    {KeyUnder(o, CommitPairs(repositories)[k][1], CommitPairs(repositories)[k][2]) :
        k \in {j \in 1..Len(CommitPairs(repositories)) :
                    HasLabel(CommitPairs(repositories)[j][2])}} \ {None}

-----------------------------------------------------------------------------
(* C1: in each aggregate_* operation a commit contributes to a bucket if and
   only if it already carries an externally supplied sentiment label; the
   counter incremented is that label's category and the confidence appended
   is that label's confidence; a commit without a label changes no count, no
   confidence list and creates no bucket.  Stated on the returned buckets:
   the buckets are those of the labelled commits, each bucket's confidence
   list is the list of the supplied confidences in fold order, and each
   count is the number of supplied labels of that category. *)
C1_OnlySuppliedLabelsAreFolded ==
    Returned =>
        /\ DOMAIN stats = KeysWithSuppliedLabel(op)
        /\ \A key \in DOMAIN stats :
            LET labels == SuppliedLabels(CommitsUnder(repositories, op, key))
            IN  /\ stats[key].confidence_scores =
                        [k \in 1..Len(labels) |-> labels[k].confidence]
                /\ \A c \in Categories :
                        stats[key].sentiment_counts[c] = CountCategory(labels, c)

-----------------------------------------------------------------------------
(* C2: folding a commit whose label has category ERROR raises no exception,
   adds one to the bucket's total and leaves the POSITIVE, NEUTRAL and
   NEGATIVE counts unchanged, in the three aggregate_* folds and in the
   sentiment count of generate_json_report.  Stated on the outcome: the
   report's count does not raise and counts exactly the labelled commits
   that are not ERROR; in a returned bucket the three counts together leave
   out the ERROR-labelled commits that the total includes. *)
ErrorLabelled(pairs) ==
    Cardinality({k \in 1..Len(pairs) :
        HasLabel(pairs[k][2]) /\ pairs[k][2].sentiment.sentiment = "ERROR"})

C2_ErrorLabelCountsOnlyInTotal ==
    /\ (op = "report" /\ phase # "folding") =>
            LET labels == SuppliedLabels(CommitPairs(repositories))
            IN  /\ phase = "finalized"
                /\ \A c \in Categories : report[c] = CountCategory(labels, c)
    /\ Returned =>
            \A key \in DOMAIN stats :
                SumValues(stats[key].sentiment_counts)
                    + ErrorLabelled(CommitsUnder(repositories, op, key))
                        <= stats[key].total_commits

-----------------------------------------------------------------------------
(* C3: for every bucket an aggregate_* operation returns, mood_score equals
   (POSITIVE - NEGATIVE) / (sum of the sentiment counts), lies in [-1, 1]
   and is 0 whenever the POSITIVE and NEGATIVE counts are equal; for counts
   that are all zero the score is 0. *)
MoodScoreOk(counts, score) ==
    LET total == counts.POSITIVE + counts.NEUTRAL + counts.NEGATIVE
    IN  /\ score.den > 0
        /\ total > 0 => FracEq(score, Frac(counts.POSITIVE - counts.NEGATIVE, total))
        /\ FracLe(FracOfInt(-1), score) /\ FracLe(score, FracOfInt(1))
        /\ counts.POSITIVE = counts.NEGATIVE => score.num = 0
        /\ total = 0 => score.num = 0

C3_MoodScore ==
    /\ MoodScoreOk(ZeroCounts, calculate_mood_score(ZeroCounts))
    /\ Returned =>
        \A key \in DOMAIN stats :
            MoodScoreOk(stats[key].sentiment_counts, stats[key].mood_score)

\* a returned bucket with as many POSITIVE as NEGATIVE commits, and one with more
\* NEGATIVE than POSITIVE commits
C3_Witness ==
    /\ Returned
    /\ \E key \in DOMAIN stats :
            /\ stats[key].sentiment_counts.POSITIVE = stats[key].sentiment_counts.NEGATIVE
            /\ stats[key].sentiment_counts.POSITIVE > 0
    /\ \E key \in DOMAIN stats :
            /\ stats[key].sentiment_counts.POSITIVE < stats[key].sentiment_counts.NEGATIVE
            /\ stats[key].mood_score.num < 0

-----------------------------------------------------------------------------
(* C4: for every bucket the three sentiment_distribution percentages are
   100 * count / total and sum to 100 whenever the bucket's total item count
   is greater than 0; they are all 0 when the total is 0.  (Exact
   arithmetic: the rounding of the floating-point sum is not modelled.) *)
FracAdd(a, b) == Frac(a.num * b.den + b.num * a.den, a.den * b.den)

DistributionOk(total_items, counts, dist) ==
    /\ DOMAIN dist = Categories
    /\ \A c \in Categories : dist[c].den > 0
    /\ total_items > 0 =>
        /\ \A c \in Categories : FracEq(dist[c], Frac(100 * counts[c], total_items))
        /\ FracEq(FracAdd(dist.POSITIVE, FracAdd(dist.NEUTRAL, dist.NEGATIVE)),
                  FracOfInt(100))
    /\ total_items = 0 => \A c \in Categories : dist[c].num = 0

C4_DistributionSumsTo100 ==
    /\ DistributionOk(0, ZeroCounts, calculate_sentiment_distribution(ZeroCounts))
    /\ Returned =>
        \A key \in DOMAIN stats :
            DistributionOk(stats[key].total_commits, stats[key].sentiment_counts,
                           stats[key].sentiment_distribution)

\* a returned bucket that holds commits of all three categories
C4_Witness ==
    /\ Returned
    /\ \E key \in DOMAIN stats :
            \A c \in Categories : stats[key].sentiment_counts[c] > 0

-----------------------------------------------------------------------------
(* C5: the top commits of a language bucket *)

\* the label the fold gives a commit
FoldedLabel(commit) == analyze_commits_sentiment(<<commit>>)[1].sentiment

\* the top-commit entries of the pairs whose folded label has the category and
\* a confidence greater than `above`, in fold order
EntriesOf(pairs, category, above) ==
    LET label(k) == FoldedLabel(pairs[k][2])
        kept == {k \in 1..Len(pairs) :
                    label(k).sentiment = category /\ label(k).confidence > above}
        nth(j) == CHOOSE k \in kept : Cardinality({m \in kept : m <= k}) = j
    IN  [j \in 1..Cardinality(kept) |->
            TopEntry(pairs[nth(j)][1], pairs[nth(j)][2], label(nth(j)).confidence)]

\* the place of candidates[q] when the candidates are listed by descending
\* confidence, equal confidences in their original order
Rank(candidates, q) ==
    1 + Cardinality({p \in 1..Len(candidates) :
            \/ candidates[p].confidence > candidates[q].confidence
            \/ candidates[p].confidence = candidates[q].confidence /\ p < q})

\* top is exactly the min(10, n) highest-confidence candidates, in descending
\* confidence, ties in original order
IsTopTen(top, candidates) ==
    /\ Len(top) = Min(10, Len(candidates))
    /\ \A q \in 1..Len(candidates) :
            Rank(candidates, q) <= 10 => top[Rank(candidates, q)] = candidates[q]

TopCommitsAre(above) ==
    (op = "language" /\ phase = "finalized") =>
        \A key \in DOMAIN stats :
            LET pairs == CommitsUnder(repositories, "language", key)
            IN  /\ IsTopTen(stats[key].top_positive_commits,
                            EntriesOf(pairs, "POSITIVE", above))
                /\ IsTopTen(stats[key].top_negative_commits,
                            EntriesOf(pairs, "NEGATIVE", above))

(* TopCommitsAre(above): the top commits of every returned language bucket
   are the top ten of its commits of a confidence greater than `above`
   (confidences are 100 * the Python value and never negative). *)

(* C5, as claimed: after aggregate_by_language each bucket's
   top_positive_commits (top_negative_commits) is exactly the min(10, n)
   highest-confidence commits among all n POSITIVE (NEGATIVE) commits folded
   into the bucket, in descending confidence, equal confidences in fold
   order. *)
C5_TopTenOfAllCommits == TopCommitsAre(-1)

(* C5, amended: the same, among the n POSITIVE (NEGATIVE) commits of the
   bucket whose confidence is greater than 0.8; a commit of confidence 0.8 or
   less is never a top commit. *)
C5_TopTenAboveThreshold == TopCommitsAre(80)

\* a returned language bucket with more than ten tracked POSITIVE commits, two
\* of equal confidence among them, and a POSITIVE commit that is not tracked
C5_Witness ==
    /\ op = "language" /\ phase = "finalized"
    /\ \E key \in DOMAIN stats :
        LET pairs   == CommitsUnder(repositories, "language", key)
            tracked == EntriesOf(pairs, "POSITIVE", 80)
        IN  /\ Len(tracked) > 10
            /\ Len(stats[key].top_positive_commits) = 10
            /\ \E p, q \in 1..Len(tracked) :
                    /\ p < q /\ Rank(tracked, q) <= 10
                    /\ tracked[p].confidence = tracked[q].confidence
                    /\ tracked[p] # tracked[q]
            /\ Len(EntriesOf(pairs, "POSITIVE", -1)) > Len(tracked)
            /\ stats[key].top_negative_commits # <<>>

-----------------------------------------------------------------------------
(* C6: aggregating A and B separately and merging the two results key by key
   (totals and per-category counts added, confidence lists concatenated)
   gives, per key, the counts, totals and confidence lists of aggregating
   A ++ B once; the per-key counts do not depend on the order of the
   repositories. *)

RECURSIVE FoldRepos(_, _, _)
FoldRepos(o, acc, repos) ==
    IF repos = <<>> \/ acc.raised # NotRaised THEN acc
    ELSE FoldRepos(o, FoldOne(o, acc, repos[1]), Tail(repos))

\* the buckets operation o has folded for repos (raised: an exception left it)
Aggregate(o, repos) ==
    FoldRepos(o, [stats |-> EmptyDict, raised |-> NotRaised], repos)

EmptyBucket == [total_commits |-> 0, sentiment_counts |-> ZeroCounts,
                confidence_scores |-> <<>>]

\* the merge of two results, on the fields the claim names
Merged(a, b) ==
    [key \in DOMAIN a \cup DOMAIN b |->
        LET x == Get(a, key, EmptyBucket)
            y == Get(b, key, EmptyBucket)
        IN  [total_commits     |-> x.total_commits + y.total_commits,
             sentiment_counts  |-> [c \in Categories |->
                                      x.sentiment_counts[c] + y.sentiment_counts[c]],
             confidence_scores |-> x.confidence_scores \o y.confidence_scores]]

Summary(result) ==
    [key \in DOMAIN result |->
        [total_commits     |-> result[key].total_commits,
         sentiment_counts  |-> result[key].sentiment_counts,
         confidence_scores |-> result[key].confidence_scores]]

Reversed(s) == [k \in 1..Len(s) |-> s[Len(s) + 1 - k]]

C6_MergeOfPartsIsWhole ==
    Returned =>
        /\ \A j \in 0..Len(repositories) :
            LET a == Aggregate(op, SubSeq(repositories, 1, j))
                b == Aggregate(op, SubSeq(repositories, j + 1, Len(repositories)))
            IN  /\ a.raised = NotRaised /\ b.raised = NotRaised
                /\ Merged(a.stats, b.stats) = Summary(stats)
        /\ LET r == Aggregate(op, Reversed(repositories))
           IN  /\ r.raised = NotRaised
               /\ DOMAIN r.stats = DOMAIN stats
               /\ \A key \in DOMAIN stats :
                    /\ r.stats[key].sentiment_counts = stats[key].sentiment_counts
                    /\ r.stats[key].total_commits = stats[key].total_commits

\* two different repositories that were folded into one and the same bucket
C6_Witness ==
    /\ Returned
    /\ Len(repositories) = 2
    /\ repositories[1] # repositories[2]
    /\ \E key \in DOMAIN stats :
            /\ key \in DOMAIN Aggregate(op, <<repositories[1]>>).stats
            /\ key \in DOMAIN Aggregate(op, <<repositories[2]>>).stats

-----------------------------------------------------------------------------
(* Region inference alone: _detect_region_from_commits on a commit list *)

\* "2024-MM-15T10:30:00"
LocalTime(month) ==
    <<"2","0","2","4","-">> \o ZeroPad(month, 2)
        \o <<"-","1","5","T","1","0",":","3","0",":","0","0">>

\* "2024-MM-15T10:30:00+hh:mm" (or -hh:mm)
WithOffset(month, sign, hh, mm) ==
    LocalTime(month) \o <<sign>> \o ZeroPad(hh, 2) \o <<":">> \o ZeroPad(mm, 2)

EastOffsets == {<<0, 0>>, <<1, 0>>, <<2, 0>>, <<5, 30>>, <<8, 0>>, <<9, 0>>,
                <<10, 0>>, <<11, 0>>}

\* <<month, hour of the offset>>
WestOffsets == {<<1, 8>>, <<8, 8>>, <<9, 9>>, <<7, 7>>, <<3, 5>>, <<12, 3>>}

DatePlusOnly == <<"n","o","w","+">>
    \* "now+"

RegionDates ==
    {WithOffset(6, "+", e[1], e[2]) : e \in EastOffsets}
        \cup {WithOffset(w[1], "-", w[2], 0) : w \in WestOffsets}
        \cup {LocalTime(6) \o <<"Z">>, LocalTime(2), DateUnparseable, DatePlusOnly, << >>}

RegionCommits ==
    {Commit(MsgDocs, d) : d \in RegionDates} \cup {[message |-> MsgDocs]}

MaxSample == 2

\* ten commits and an eleventh, which is outside the sample
LongInputs ==
    {[k \in 1..(SampleSize + 1) |-> IF k <= SampleSize THEN c ELSE d] :
        c \in {Commit(MsgDocs, DateUnparseable), Commit(MsgDocs, WithOffset(6, "+", 9, 0))},
        d \in RegionCommits}

\* the commits of the offsets -08:00, -09:00, -07:00
PacificInput ==
    << Commit(MsgDocs, WithOffset(8, "-", 8, 0)),
       Commit(MsgDocs, WithOffset(9, "-", 9, 0)),
       Commit(MsgDocs, WithOffset(7, "-", 7, 0)) >>

RegionInputs ==
    UNION {[1..n -> RegionCommits] : n \in 0..MaxSample}
        \cup LongInputs \cup {PacificInput}

InitRegion ==
    /\ op = "infer_region"
    /\ commits_in \in RegionInputs
    /\ region_out = NoRegionCall
    /\ repositories = <<>>
    /\ repo_index = 1
    /\ stats = EmptyDict
    /\ phase = "folding"
    /\ report = ZeroCounts
    /\ arg = None
    /\ ret = NoReturn

InferRegion ==
    /\ op = "infer_region"
    /\ ~region_out.called
    /\ region_out' = [called    |-> TRUE,
                      timezones |-> TimezonesOf(RegionSample(commits_in)),
                      region    |-> detect_region_from_commits(commits_in)]
    /\ UNCHANGED <<op, repositories, repo_index, stats, phase, report, commits_in,
                   arg, ret>>

NextRegion == InferRegion

SpecRegion == InitRegion /\ [][NextRegion]_vars

-----------------------------------------------------------------------------
(* C7: for every author date of the form YYYY-MM-DDTHH:MM:SS followed by a
   UTC offset +hh:mm or -hh:mm, the value contributed to the mean is the
   signed integer hour of that offset. *)

HasUtcOffset(date) ==
    Len(date) = 25 /\ DateShape(date) /\ TimeShape(date) /\ OffsetShape(date)

SignedOffsetHour(date) ==
    IF date[20] = "-" THEN -Num(date, 21, 22) ELSE Num(date, 21, 22)

C7_OffsetHourContributed ==
    region_out.called =>
        LET sample == SubSeq(commits_in, 1, Min(10, Len(commits_in)))
        IN  (\A k \in 1..Len(sample) : HasUtcOffset(AuthorDate(sample[k])))
                => region_out.timezones =
                        [k \in 1..Len(sample) |-> SignedOffsetHour(AuthorDate(sample[k]))]

-----------------------------------------------------------------------------
(* C8: region inference returns none if and only if no UTC offset could be
   parsed from the first 10 commits (the empty list included); otherwise it
   returns exactly one label of the fixed region enumeration, and the parsed
   offsets -8, -9, -7 give Americas_West. *)

RegionEnumeration ==
    {"Americas_West", "Americas_Central", "Americas_East", "Europe_West",
     "Europe_East", "Asia_India", "Asia_Southeast", "Asia_East", "Other"}

NothingParsed(commits) ==
    \A k \in 1..Min(10, Len(commits)) : OffsetOfDate(AuthorDate(commits[k])) = <<>>

C8_NoneIffNothingParsed ==
    region_out.called =>
        /\ region_out.region = None <=> NothingParsed(commits_in)
        /\ region_out.region # None => region_out.region \in RegionEnumeration
        /\ region_out.timezones = <<-8, -9, -7>> => region_out.region = "Americas_West"

\* the offsets -8, -9, -7 were parsed and Americas_West returned
C8_Witness ==
    /\ region_out.called
    /\ region_out.timezones = <<-8, -9, -7>>
    /\ region_out.region = "Americas_West"

-----------------------------------------------------------------------------
(* C9: for every mean offset m with -12 <= m <= 10, the non-integer means of
   integer offsets included, region inference returns one of the named
   region buckets; Other is returned only when m < -12 or m > 10. *)
C9_OtherOnlyOutsideRanges ==
    (region_out.called /\ region_out.timezones # <<>>) =>
        LET m == mean(region_out.timezones)
        IN  region_out.region = "Other" <=> ~Between(-12, m, 10)

-----------------------------------------------------------------------------
(* C10: where the ranges of Asia_Southeast [7,9] and Asia_East [8,10]
   overlap, the rule listed first wins: every mean in [8,9] maps to
   Asia_Southeast, Asia_East is returned exactly for the means in (9,10],
   and the result is the first rule in table order whose range holds the
   mean. *)

RegionTable ==
    << <<-12, -8, "Americas_West">>, <<-7, -5, "Americas_Central">>,
       <<-4, -2, "Americas_East">>, <<-1, 1, "Europe_West">>,
       <<2, 4, "Europe_East">>, <<5, 6, "Asia_India">>,
       <<7, 9, "Asia_Southeast">>, <<8, 10, "Asia_East">> >>

Holds(rule, m) == Between(rule[1], m, rule[2])

FirstMatch(m) ==
    IF \E k \in DOMAIN RegionTable : Holds(RegionTable[k], m)
    THEN RegionTable[CHOOSE k \in DOMAIN RegionTable :
                        /\ Holds(RegionTable[k], m)
                        /\ \A j \in 1..(k - 1) : ~Holds(RegionTable[j], m)][3]
    ELSE "Other"

C10_FirstRuleWins ==
    (region_out.called /\ region_out.timezones # <<>>) =>
        LET m == mean(region_out.timezones)
        IN  /\ Between(8, m, 9) => region_out.region = "Asia_Southeast"
            /\ region_out.region = "Asia_East" <=> (~FracLe(m, FracOfInt(9)) /\ Between(8, m, 10))
            /\ region_out.region = FirstMatch(m)

\* a mean strictly inside the overlap, which both ranges hold
C10_Witness ==
    /\ region_out.called
    /\ region_out.timezones = <<8, 9>>
    /\ region_out.region = "Asia_Southeast"

-----------------------------------------------------------------------------
(* The time window of aggregate_by_time_period, as the claims read it *)

\* the calendar day an author date is written with, in its own UTC offset
OwnDay(date) == SubSeq(date, 1, 10)

\* the seconds east of UTC of an author date YYYY-MM-DDTHH:MM:SS(+|-)HH:MM
OffsetSeconds(s) ==
    IF Len(s) = 25
    THEN (IF s[20] = "-" THEN -1 ELSE 1) * (Num(s, 21, 22) * 3600 + Num(s, 24, 25) * 60)
    ELSE 0

\* the author date is a timestamp whose instant is not older than
\* now - period_days (now and a timestamp without offset read on one clock)
NotOlderThanWindow(date) ==
    LET s == ReplaceZ(date)
        d == fromisoformat(s)
    IN  /\ d.ok
        /\ (Ordinal(d.year, d.month, d.day) - (NowOrdinal - PeriodDays)) * 86400
                + d.second - OffsetSeconds(s) >= NowSecond

TimeReturned == op = "time" /\ phase = "finalized"

\* the <<repo, commit>> pairs of the input whose commit has an author date
DatedPairs ==
    {k \in 1..Len(CommitPairs(repositories)) :
        AuthorDate(CommitPairs(repositories)[k][2]) # <<>>}

DateOfPair(k) == AuthorDate(CommitPairs(repositories)[k][2])

(* C11: in aggregate_by_time_period a labelled commit contributes to a bucket
   if and only if its author date is not older than now minus period_days,
   under the key YYYY-MM-DD of the commit's own timestamp in its own UTC
   offset; older commits change no bucket.  Stated on the operation: it
   returns, every labelled commit inside the window has the bucket of its own
   calendar day, and every returned bucket is the own calendar day of some
   commit inside the window. *)
C11_WindowAndOwnCalendarDay ==
    op = "time" =>
        /\ phase # "raised"
        /\ phase = "finalized" =>
            /\ \A k \in DatedPairs :
                    HasLabel(CommitPairs(repositories)[k][2])
                        /\ NotOlderThanWindow(DateOfPair(k))
                    => OwnDay(DateOfPair(k)) \in DOMAIN stats
            /\ \A key \in DOMAIN stats :
                    \E k \in DatedPairs :
                        NotOlderThanWindow(DateOfPair(k)) /\ OwnDay(DateOfPair(k)) = key

(* C12: during aggregate_by_time_period and region inference a commit whose
   author date or UTC offset is missing, unparseable or not comparable never
   aborts the operation: no exception reaches the caller, and every other
   commit of every repository is still folded (every commit of a readable
   date inside the window has its bucket in the result). *)
C12_BadDateNeverAborts ==
    op \in {"time", "region"} =>
        /\ phase # "raised"
        /\ repo_index > Len(repositories) /\ op = "time" =>
                \A k \in DatedPairs :
                    LET d == fromisoformat(ReplaceZ(DateOfPair(k)))
                    IN  d.ok /\ ~d.aware /\ WithinPeriod(d)
                            => OwnDay(DateOfPair(k)) \in DOMAIN stats

-----------------------------------------------------------------------------
(* src/core/preprocessor.py: the regular expressions of the Preprocessor *)

\* \s, on the characters of the model
Whitespace == {" ", "\t", "\n", "\r"}

\* [a-zA-Z]
IsLetter(c) == \E k \in DOMAIN LowerChars : LowerChars[k] = c \/ UpperChars[k] = c

\* \w
IsWordChar(c) == IsLetter(c) \/ IsDigit(c) \/ c = "_"

\* the characters of the range $-_ that are neither letters nor digits
DollarToUnderscore ==
    {"$", "%", "&", "'", "(", ")", "*", "+", ",", "-", ".", "/", ":", ";", "<",
     "=", ">", "?", "@", "[", "\\", "]", "^", "_"}

\* (?:[a-zA-Z]|[0-9]|[$-_@.&+]|[!*\\(\\),]|(?:%[0-9a-fA-F][0-9a-fA-F])): every
\* alternative consumes characters of this one set
IsUrlChar(c) ==
    IsLetter(c) \/ IsDigit(c) \/ c \in DollarToUnderscore \/ c \in {"!", "*", "(", ")", ","}

\* the character classes the patterns repeat
InClass(class, c) ==
    IF class = "digit" THEN IsDigit(c)
    ELSE IF class = "space" THEN c \in Whitespace
    ELSE IF class = "url" THEN IsUrlChar(c)
    ELSE IF class = "letter" THEN IsLetter(c)
    ELSE IF class = "name_start" THEN IsLetter(c) \/ c = "_"       \* [a-zA-Z_]
    ELSE IF class = "name" THEN IsWordChar(c)                     \* [a-zA-Z0-9_]
    ELSE IF class = "dotted_name" THEN IsWordChar(c) \/ c = "."   \* [a-zA-Z0-9_.]
    ELSE c # "\n"                           \* "dot": `.` without re.DOTALL

\* how many characters of s, from position i on, are of the class (a greedy
\* class* at position i)
RECURSIVE RunLength(_, _, _)
RunLength(class, s, i) ==
    IF i > Len(s) \/ ~InClass(class, s[i]) THEN 0
    ELSE 1 + RunLength(class, s, i + 1)

\* whether the lower-cased s has w at position i (a literal under re.IGNORECASE)
LiteralAtIgnoreCase(s, w, i) ==
    i + Len(w) - 1 <= Len(s) /\ \A j \in 1..Len(w) : LowerChar(s[i + j - 1]) = w[j]

\* whether s has w at position i
LiteralAt(s, w, i) ==
    i + Len(w) - 1 <= Len(s) /\ \A j \in 1..Len(w) : s[i + j - 1] = w[j]

\* the length of the match of a pattern that starts at position i of s, 0 when
\* the pattern does not match there (no pattern matches the empty string)
MatchLen(pattern, s, i) ==
    IF pattern = "merge"        \* ^Merge.* under re.IGNORECASE; ^ is the start of the string
    THEN IF i = 1 /\ LiteralAtIgnoreCase(s, <<"m","e","r","g","e">>, 1)
         THEN 5 + RunLength("dot", s, 6) ELSE 0
    ELSE IF pattern = "revert"  \* ^Revert.* under re.IGNORECASE
    THEN IF i = 1 /\ LiteralAtIgnoreCase(s, <<"r","e","v","e","r","t">>, 1)
         THEN 6 + RunLength("dot", s, 7) ELSE 0
    ELSE IF pattern = "issue"   \* #\d+
    THEN IF s[i] = "#" /\ RunLength("digit", s, i + 1) > 0
         THEN 1 + RunLength("digit", s, i + 1) ELSE 0
    ELSE IF pattern = "fixes"   \* fixes?\s+#\d+ under re.IGNORECASE: "fixe", an optional "s"
    THEN IF LiteralAtIgnoreCase(s, <<"f","i","x","e">>, i)
         THEN LET j == IF LiteralAtIgnoreCase(s, <<"s">>, i + 4) THEN i + 5 ELSE i + 4
                  w == RunLength("space", s, j)
                  d == RunLength("digit", s, j + w + 1)
              IN  IF w > 0 /\ LiteralAt(s, <<"#">>, j + w) /\ d > 0
                  THEN j + w + 1 + d - i ELSE 0
         ELSE 0
    ELSE IF pattern = "url"     \* http[s]?://(?:...)+
    THEN IF LiteralAt(s, <<"h","t","t","p">>, i)
         THEN LET j == IF LiteralAt(s, <<"s">>, i + 4) THEN i + 5 ELSE i + 4
                  u == RunLength("url", s, j + 3)
              IN  IF LiteralAt(s, <<":","/","/">>, j) /\ u > 0
                  THEN j + 3 + u - i ELSE 0
         ELSE 0
    ELSE IF pattern = "spaces"  \* \s+
    THEN RunLength("space", s, i)
    ELSE \* "special": [^\w\s\.\!\?]
         IF IsWordChar(s[i]) \/ s[i] \in Whitespace \/ s[i] \in {".", "!", "?"}
         THEN 0 ELSE 1

\* re.sub(pattern, repl, s): the matches are found left to right from position
\* i, each search resuming after the previous match
RECURSIVE ReSub(_, _, _, _)
ReSub(pattern, repl, s, i) ==
    IF i > Len(s) THEN <<>>
    ELSE LET n == MatchLen(pattern, s, i)
         IN  IF n > 0 THEN repl \o ReSub(pattern, repl, s, i + n)
             ELSE <<s[i]>> \o ReSub(pattern, repl, s, i + 1)

\* str.strip()
RECURSIVE str_strip(_)
str_strip(s) ==
    IF s = <<>> THEN s
    ELSE IF s[1] \in Whitespace THEN str_strip(Tail(s))
    ELSE IF s[Len(s)] \in Whitespace THEN str_strip(SubSeq(s, 1, Len(s) - 1))
    ELSE s

\* str.startswith(w)
StartsWith(s, w) == LiteralAt(s, w, 1)

-----------------------------------------------------------------------------
(* src/core/preprocessor.py: the Preprocessor *)

\* lines 19-20
RemoveGitPatterns(message) ==
    ReSub("revert", <<>>, ReSub("merge", <<>>, message, 1), 1)

\* lines 23-24: the issue references, then the "fixes #n" phrasing
RemoveIssueReferences(message) ==
    ReSub("fixes", <<>>, ReSub("issue", <<>>, message, 1), 1)

\* line 27
RemoveUrls(message) == ReSub("url", <<>>, message, 1)

\* line 30
CleanWhitespace(message) == str_strip(ReSub("spaces", <<" ">>, message, 1))

\* a variant that removes the URLs before the issue references
clean_commit_message_urls_first(message) ==
    CleanWhitespace(RemoveIssueReferences(RemoveUrls(RemoveGitPatterns(message))))

\* Preprocessor.clean_commit_message
clean_commit_message(message) ==
    CleanWhitespace(RemoveUrls(RemoveIssueReferences(RemoveGitPatterns(message))))

MinLengthDefault == 5       \* min_length: int = 5

\* a variant that checks the length alone
IsMeaningful_length_only(cleaned_message, min_length) ==
    ~(Len(cleaned_message) < min_length)

\* lines 40-57: whether the loop keeps a commit of this cleaned message
IsMeaningful(cleaned_message, min_length) ==
    /\ ~(Len(cleaned_message) < min_length)
    /\ ~StartsWith(Lower(cleaned_message), <<"m","e","r","g","e">>)
    /\ ~StartsWith(Lower(cleaned_message), <<"r","e","v","e","r","t">>)

\* Preprocessor.filter_meaningful_commits
RECURSIVE filter_meaningful_commits(_, _)
filter_meaningful_commits(commits, min_length) ==
    IF commits = <<>> THEN <<>>
    ELSE LET commit          == commits[1]
             cleaned_message == clean_commit_message(commit.message)
         IN  (IF IsMeaningful(cleaned_message, min_length)
              THEN <<Put(commit, "cleaned_message", cleaned_message)>>
              ELSE <<>>)
                \o filter_meaningful_commits(Tail(commits), min_length)

\* re.findall(r'\b[a-zA-Z]{3,}\b', s) from position i: a run of letters that
\* starts and ends at a word boundary (\b: between a \w and a non-\w character
\* or an end of the string)
RECURSIVE FindWords(_, _)
FindWords(s, i) ==
    IF i > Len(s) THEN <<>>
    ELSE LET n == RunLength("letter", s, i)
             starts == i = 1 \/ ~IsWordChar(s[i - 1])
             ends   == i + n > Len(s) \/ ~IsWordChar(s[i + n])
         IN  IF n >= 3 /\ starts /\ ends
             THEN <<SubSeq(s, i, i + n - 1)>> \o FindWords(s, i + n)
             ELSE FindWords(s, i + 1)

\* stop_words, lines 67-74
stop_words ==
    {<<"t","h","e">>, <<"a","n","d">>, <<"o","r">>, <<"b","u","t">>, <<"i","n">>,
     <<"o","n">>, <<"a","t">>, <<"t","o">>, <<"f","o","r">>, <<"o","f">>,
     <<"w","i","t","h">>, <<"b","y">>, <<"f","r","o","m">>, <<"u","p">>,
     <<"a","b","o","u","t">>, <<"i","n","t","o">>, <<"t","h","r","o","u","g","h">>,
     <<"d","u","r","i","n","g">>, <<"b","e","f","o","r","e">>, <<"a","f","t","e","r">>,
     <<"a","b","o","v","e">>, <<"b","e","l","o","w">>, <<"b","e","t","w","e","e","n">>,
     <<"a","m","o","n","g">>, <<"t","h","i","s">>, <<"t","h","a","t">>,
     <<"t","h","e","s","e">>, <<"t","h","o","s","e">>, <<"i">>, <<"y","o","u">>,
     <<"h","e">>, <<"s","h","e">>, <<"i","t">>, <<"w","e">>, <<"t","h","e","y">>,
     <<"i","s">>, <<"a","r","e">>, <<"w","a","s">>, <<"w","e","r","e">>, <<"b","e">>,
     <<"b","e","e","n">>, <<"b","e","i","n","g">>, <<"h","a","v","e">>,
     <<"h","a","s">>, <<"h","a","d">>, <<"d","o">>, <<"d","o","e","s">>,
     <<"d","i","d">>, <<"w","i","l","l">>, <<"w","o","u","l","d">>,
     <<"c","o","u","l","d">>, <<"s","h","o","u","l","d">>, <<"m","a","y">>,
     <<"m","i","g","h","t">>, <<"m","u","s","t">>, <<"c","a","n">>}

KeywordLimit == 10          \* keywords[:10]

\* a variant that cuts the list before it drops the stop words
extract_keywords_cut_first(text) ==
    SelectSeq(Prefix(FindWords(Lower(text), 1), KeywordLimit),
              LAMBDA word : word \notin stop_words)

\* Preprocessor.extract_keywords
extract_keywords(text) ==
    LET words    == FindWords(Lower(text), 1)
        keywords == SelectSeq(words, LAMBDA word : word \notin stop_words)
    IN  Prefix(keywords, KeywordLimit)

\* Preprocessor.normalize_text
normalize_text(text) ==
    str_strip(ReSub("special", <<>>, ReSub("spaces", <<" ">>, Lower(text), 1), 1))

-----------------------------------------------------------------------------
(* The Preprocessor's functions as a state machine: one call of one function
   on an argument drawn from the texts below *)

RECURSIVE Flatten(_)
Flatten(tokens) == IF tokens = <<>> THEN <<>> ELSE tokens[1] \o Flatten(Tail(tokens))

MaxTokens == 3

\* the texts made of at most MaxTokens pieces
Texts(pieces) == {Flatten(f) : f \in UNION {[1..n -> pieces] : n \in 0..MaxTokens}}

\* pieces of commit messages
MessagePieces ==
    {<<"M","e","r","g","e">>, <<"r","e","V","e","r","t">>, <<"\n">>, <<" ">>,
     <<"x">>, <<"#">>, <<"1","2">>, <<"h","t","t","p",":","/","/">>,
     <<"h","t","t","p","s",":","/","/">>, <<"h","t">>, <<"t","p",":","/","/">>,
     <<"f","i","x","e","s">>, <<"f","i","x">>}

MsgMergeBranch ==
    <<"M","e","r","g","e"," ","b","r","a","n","c","h"," ","'","f","e","a","t","u","r","e","'"," ","i","n","t","o"," ","m","a","i","n">>
    \* "Merge branch 'feature' into main"

MsgMergeWithBody ==
    <<"M","e","r","g","e"," ","p","u","l","l"," ","r","e","q","u","e","s","t"," ","#","7"," ","f","r","o","m"," ","d","e","v","/","c","a","c","h","e","\n","\n","A","d","d"," ","t","h","e"," ","c","a","c","h","e"," ","l","a","y","e","r">>
    \* "Merge pull request #7 from dev/cache\n\nAdd the cache layer"

MsgFixBugIssue ==
    <<"F","i","x"," ","b","u","g"," ","#","1","2","3"," ","i","n"," ","a","u","t","h","e","n","t","i","c","a","t","i","o","n">>
    \* "Fix bug #123 in authentication"

MsgUpdateDocsUrl ==
    <<"U","p","d","a","t","e"," ","d","o","c","s"," ","h","t","t","p","s",":","/","/","e","x","a","m","p","l","e",".","c","o","m">>
    \* "Update docs https://example.com"

MsgAddCacheFixes ==
    <<"A","d","d"," ","c","a","c","h","e"," ","f","i","x","e","s"," ","#","1","2">>
    \* "Add cache fixes #12"

MsgAddCacheFixe ==
    <<"A","d","d"," ","c","a","c","h","e"," ","F","I","X","E","S"," "," ","#","1","2"," ","n","o","w">>
    \* "Add cache FIXES  #12 now"

MsgSplitUrl ==
    <<"s","e","e"," ","h","t","t","p","#","1","2",":","/","/","e","x","a","m","p","l","e",".","c","o","m"," ","n","o","w">>
    \* "see http#12://example.com now"

Messages ==
    Texts(MessagePieces)
        \cup {MsgMergeBranch, MsgMergeWithBody, MsgFixBugIssue, MsgUpdateDocsUrl,
              MsgAddCacheFixes, MsgAddCacheFixe, MsgSplitUrl}

\* pieces of texts for the keyword extraction
KeywordPieces ==
    {<<"t","h","e">>, <<"f","i","x">>, <<"L","o","g","i","n">>, <<"a","b">>,
     <<"2">>, <<"_">>, <<" ">>, <<"-">>, <<"s","h","o","u","l","d">>}

TextLogin ==
    <<"F","i","x"," ","a","u","t","h","e","n","t","i","c","a","t","i","o","n"," ","b","u","g"," ","i","n"," ","u","s","e","r"," ","l","o","g","i","n"," ","s","y","s","t","e","m">>
    \* "Fix authentication bug in user login system"

TextTwelveWords ==
    <<"a","d","d"," ","t","h","e"," ","c","a","c","h","e",","," ","a","d","d"," ","t","e","s","t","s"," ","a","n","d"," ","d","o","c","s",";"," ","f","i","x"," ","l","o","g","i","n",","," ","f","i","x"," ","c","a","c","h","e",","," ","a","d","d"," ","r","e","t","r","y"," ","t","h","e","n"," ","d","r","o","p"," ","c","a","c","h","e"," ","a","n","d"," ","f","i","x"," ","d","o","c","s">>
    \* "add the cache, add tests and docs; fix login, fix cache, add retry then drop cache and fix docs"

TextVersions ==
    <<"u","t","f","8"," ","e","n","c","o","d","i","n","g",","," ","v","2","b","e","t","a"," ","a","p","i",","," ","s","n","a","k","e","_","c","a","s","e"," ","n","a","m","e","s">>
    \* "utf8 encoding, v2beta api, snake_case names"

KeywordTexts == Texts(KeywordPieces) \cup {TextLogin, TextTwelveWords, TextVersions}

\* pieces of texts for the normalization
NormalizePieces ==
    {<<" ">>, <<"\t">>, <<"F","i","x">>, <<"B","U","G">>, <<"!">>, <<"@">>, <<"?">>,
     <<".">>, <<"#">>, <<"_">>}

TextFixBug ==
    <<" "," ","F","i","x"," "," "," ","B","U","G","!","!","!"," "," ">>
    \* "  Fix   BUG!!!  "

NormalizeTexts == Texts(NormalizePieces) \cup {TextFixBug}

MsgFixAuthBug ==
    <<"F","i","x"," ","a","u","t","h","e","n","t","i","c","a","t","i","o","n"," ","b","u","g">>
    \* "Fix authentication bug"

MsgMergeShort ==
    <<"M","e","r","g","e"," ","b","r","a","n","c","h">>
    \* "Merge branch"

MsgAddNewFeature ==
    <<"A","d","d"," ","n","e","w"," ","f","e","a","t","u","r","e">>
    \* "Add new feature"

MsgA ==
    <<"a">>
    \* "a"

MsgIndentedMerge ==
    <<" ","m","e","r","g","e"," ","t","h","e"," ","t","w","o"," ","l","i","s","t","s">>
    \* " merge the two lists"

MsgIssueThenRevert ==
    <<"#","4"," ","R","e","v","e","r","t","e","d"," ","t","h","e"," ","f","l","a","g">>
    \* "#4 Reverted the flag"

\* commits as the tests hand them in: a message and an author name
FilterCommits ==
    {[message |-> m, author |-> "John"] :
        m \in {MsgFixAuthBug, MsgMergeShort, MsgAddNewFeature, MsgA,
                MsgIndentedMerge, MsgIssueThenRevert, MsgMergeWithBody, MsgFixTypo}}

MaxCommits == 2

MinLengths == {0, MinLengthDefault, 16}

FilterArguments ==
    {[commits |-> c, min_length |-> n] :
        c \in UNION {[1..k -> FilterCommits] : k \in 0..MaxCommits}, n \in MinLengths}

TextFunctions ==
    {"clean_commit_message", "filter_meaningful_commits", "extract_keywords",
     "normalize_text"}

InitPreprocessor ==
    /\ op \in TextFunctions
    /\ arg \in (IF op = "clean_commit_message" THEN Messages
                ELSE IF op = "filter_meaningful_commits" THEN FilterArguments
                ELSE IF op = "extract_keywords" THEN KeywordTexts
                ELSE NormalizeTexts)
    /\ ret = NoReturn
    /\ repositories = <<>>
    /\ repo_index = 1
    /\ stats = EmptyDict
    /\ phase = "folding"
    /\ report = ZeroCounts
    /\ commits_in = <<>>
    /\ region_out = NoRegionCall

\* the call returns `value`
Return(value) ==
    /\ ~ret.returned
    /\ ret' = [returned |-> TRUE, value |-> value]
    /\ UNCHANGED <<op, repositories, repo_index, stats, phase, report, commits_in,
                   region_out, arg>>

CleanCommitMessage ==
    op = "clean_commit_message" /\ Return(clean_commit_message(arg))

FilterMeaningfulCommits ==
    op = "filter_meaningful_commits"
        /\ Return(filter_meaningful_commits(arg.commits, arg.min_length))

ExtractKeywords ==
    op = "extract_keywords" /\ Return(extract_keywords(arg))

NormalizeText ==
    op = "normalize_text" /\ Return(normalize_text(arg))

NextPreprocessor ==
    \/ CleanCommitMessage
    \/ FilterMeaningfulCommits
    \/ ExtractKeywords
    \/ NormalizeText

SpecPreprocessor == InitPreprocessor /\ [][NextPreprocessor]_vars

-----------------------------------------------------------------------------
(* Claims about Preprocessor.clean_commit_message *)

Cleaned == op = "clean_commit_message" /\ ret.returned

BeginsWithMergeOrRevert(message) ==
    \/ LiteralAtIgnoreCase(message, <<"m","e","r","g","e">>, 1)
    \/ LiteralAtIgnoreCase(message, <<"r","e","v","e","r","t">>, 1)

(* C13: for every message that begins with "merge" or "revert" in any letter
   case, clean_commit_message returns the empty string: the whole message is
   discarded, the further lines of a multi-line message included. *)
C13_MergeOrRevertDiscardedWhole ==
    Cleaned /\ BeginsWithMergeOrRevert(arg) => ret.value = <<>>

\* '#' immediately followed by a digit, at position i of s
IssueReferenceAt(s, i) == i < Len(s) /\ s[i] = "#" /\ IsDigit(s[i + 1])

\* http:// or https:// followed by a character of a URL, at position i of s
UrlAt(s, i) ==
    \/ LiteralAt(s, <<"h","t","t","p",":","/","/">>, i)
            /\ i + 7 <= Len(s) /\ IsUrlChar(s[i + 7])
    \/ LiteralAt(s, <<"h","t","t","p","s",":","/","/">>, i)
            /\ i + 8 <= Len(s) /\ IsUrlChar(s[i + 8])

(* C14: for every input message the output of clean_commit_message contains
   no substring that the removal patterns match: no '#' immediately followed
   by a digit and no http:// or https:// URL, also when removing one token
   brings the surrounding characters together. *)
C14_NoIssueReferenceNoUrlLeft ==
    Cleaned => \A i \in 1..Len(ret.value) :
                    ~IssueReferenceAt(ret.value, i) /\ ~UrlAt(ret.value, i)

\* the removal of an issue reference inside "http" and "://" put a URL together,
\* and the URL was removed after it
C14_Witness ==
    /\ Cleaned
    /\ arg = MsgSplitUrl
    /\ \A i \in 1..Len(arg) : ~UrlAt(arg, i)
    /\ \E i \in 1..Len(arg) : IssueReferenceAt(arg, i)
    /\ ret.value = <<"s","e","e"," ","n","o","w">>

\* the length of the phrase "fixes #<digits>" or "fix #<digits>", any letter
\* case, at position i of s; 0 when there is none
FixesPhraseLen(s, i) ==
    IF LiteralAtIgnoreCase(s, <<"f","i","x">>, i)
    THEN LET j == IF LiteralAtIgnoreCase(s, <<"e","s">>, i + 3) THEN i + 5 ELSE i + 3
             w == RunLength("space", s, j)
             d == RunLength("digit", s, j + w + 1)
         IN  IF w > 0 /\ LiteralAt(s, <<"#">>, j + w) /\ d > 0
             THEN j + w + 1 + d - i ELSE 0
    ELSE 0

\* the message without its "fixes #<digits>" phrases
RECURSIVE WithoutFixesPhrases(_, _)
WithoutFixesPhrases(s, i) ==
    IF i > Len(s) THEN <<>>
    ELSE IF FixesPhraseLen(s, i) > 0 THEN WithoutFixesPhrases(s, i + FixesPhraseLen(s, i))
    ELSE <<s[i]>> \o WithoutFixesPhrases(s, i + 1)

(* C15: for every message containing the phrasing "fixes #<digits>" (or
   "fix #<digits>", any letter case) clean_commit_message removes the whole
   phrase, the word together with the issue reference: the result is the
   cleaned message of the text without its phrases, and "Add cache fixes #12"
   gives "Add cache". *)
C15_FixesPhraseRemovedWhole ==
    Cleaned =>
        /\ ret.value = clean_commit_message(WithoutFixesPhrases(arg, 1))
        /\ arg = MsgAddCacheFixes => ret.value = <<"A","d","d"," ","c","a","c","h","e">>

-----------------------------------------------------------------------------
(* Claims about filter_meaningful_commits, extract_keywords, normalize_text *)

Filtered == op = "filter_meaningful_commits" /\ ret.returned

\* the commit's cleaned message has the length and is no merge or revert
PassesBothChecks(commit, min_length) ==
    LET cleaned == clean_commit_message(commit.message)
    IN  /\ Len(cleaned) >= min_length
        /\ ~LiteralAtIgnoreCase(cleaned, <<"m","e","r","g","e">>, 1)
        /\ ~LiteralAtIgnoreCase(cleaned, <<"r","e","v","e","r","t">>, 1)

(* C16: for every commit list and min_length, filter_meaningful_commits
   returns exactly the subsequence of the input, in original order, of the
   commits whose cleaned message has length >= min_length and does not start
   with "merge" or "revert" after lower-casing; each returned commit carries
   its cleaned_message. *)
C16_FilterIsTheSubsequence ==
    Filtered =>
        LET commits == arg.commits
            kept    == {k \in 1..Len(commits) : PassesBothChecks(commits[k], arg.min_length)}
            nth(j)  == CHOOSE k \in kept : Cardinality({m \in kept : m <= k}) = j
        IN  /\ Len(ret.value) = Cardinality(kept)
            /\ \A j \in 1..Cardinality(kept) :
                    /\ ret.value[j].cleaned_message = clean_commit_message(commits[nth(j)].message)
                    /\ [f \in DOMAIN commits[nth(j)] |-> ret.value[j][f]] = commits[nth(j)]

\* a commit long enough is left out as a merge, the commit after it is kept
C16_Witness ==
    /\ Filtered
    /\ arg.min_length = MinLengthDefault
    /\ Len(arg.commits) = 2
    /\ arg.commits[1].message = MsgIndentedMerge
    /\ Len(clean_commit_message(MsgIndentedMerge)) >= MinLengthDefault
    /\ arg.commits[2].message = MsgFixAuthBug
    /\ Len(ret.value) = 1
    /\ ret.value[1].message = MsgFixAuthBug

Extracted == op = "extract_keywords" /\ ret.returned

\* the maximal runs of letters of s from position i on, with the position
\* each starts at
RECURSIVE LetterRuns(_, _)
LetterRuns(s, i) ==
    IF i > Len(s) THEN <<>>
    ELSE LET n == RunLength("letter", s, i)
         IN  IF n > 0 THEN <<[at |-> i, len |-> n]>> \o LetterRuns(s, i + n)
             ELSE LetterRuns(s, i + 1)

\* a run that has a digit or an underscore right before or right after it
TouchesDigitOrUnderscore(s, run) ==
    \/ run.at > 1 /\ (IsDigit(s[run.at - 1]) \/ s[run.at - 1] = "_")
    \/ run.at + run.len <= Len(s)
            /\ (IsDigit(s[run.at + run.len]) \/ s[run.at + run.len] = "_")

\* the first ten, in order of appearance and with repeats, of the lower-cased
\* maximal runs of three letters or more that are no stop words; when
\* whole_words, only of the runs that touch no digit and no underscore
KeywordsOf(text, whole_words) ==
    LET s    == Lower(text)
        runs == SelectSeq(LetterRuns(s, 1),
                    LAMBDA run : /\ run.len >= 3
                                 /\ whole_words => ~TouchesDigitOrUnderscore(s, run))
        words == [k \in 1..Len(runs) |-> SubSeq(s, runs[k].at, runs[k].at + runs[k].len - 1)]
    IN  Prefix(SelectSeq(words, LAMBDA word : word \notin stop_words), 10)

(* C17, as claimed: extract_keywords returns the first min(10, n) elements,
   in order of appearance and with repeats kept, of the n lower-cased maximal
   alphabetic runs of length >= 3 of the text that are not stop words; never
   more than 10 elements and never a stop word. *)
C17_KeywordsOfAlphabeticRuns ==
    Extracted =>
        /\ ret.value = KeywordsOf(arg, FALSE)
        /\ Len(ret.value) <= 10
        /\ \A k \in 1..Len(ret.value) : ret.value[k] \notin stop_words

(* C17, amended: the same of the maximal alphabetic runs of length >= 3 that
   are whole words, with no digit and no underscore right before or after
   them. *)
C17_KeywordsOfWholeWords ==
    Extracted =>
        /\ ret.value = KeywordsOf(arg, TRUE)
        /\ Len(ret.value) <= 10
        /\ \A k \in 1..Len(ret.value) : ret.value[k] \notin stop_words

\* more than ten words survive, with repeats and stop words among them
C17_Witness ==
    /\ Extracted
    /\ arg = TextTwelveWords
    /\ Len(ret.value) = 10
    /\ ret.value[1] = ret.value[3]
    /\ Len(FindWords(Lower(arg), 1)) > 10 + 2
    /\ \E k \in 1..10 : FindWords(Lower(arg), 1)[k] \in stop_words

Normalized == op = "normalize_text" /\ ret.returned

(* C18: normalize_text returns the text lower-cased, with runs of whitespace
   collapsed to one space, trimmed, and with punctuation such as exclamation
   marks removed, so that normalize_text("  Fix   BUG!!!  ") is exactly
   "fix bug". *)
C18_NormalizeRemovesPunctuation ==
    Normalized =>
        /\ ret.value = Lower(ret.value)
        /\ \A k \in 1..Len(ret.value) : ret.value[k] # "!"
        /\ \A k \in 1..(Len(ret.value) - 1) :
                ~(ret.value[k] \in Whitespace /\ ret.value[k + 1] \in Whitespace)
        /\ ret.value = str_strip(ret.value)
        /\ arg = TextFixBug => ret.value = <<"f","i","x"," ","b","u","g">>

-----------------------------------------------------------------------------
(* src/core/git_extractor.py: get_function_names *)

\* Path(file_path).suffix.lower() of a file name with no directory part
Suffix(file_path) ==
    LET dots == {k \in 2..Len(file_path) : file_path[k] = "."}
        last == CHOOSE k \in dots : \A m \in dots : m <= k
    IN  IF dots = {} THEN <<>> ELSE Lower(SubSeq(file_path, last, Len(file_path)))

\* the elements the name patterns are made of: a literal, a greedy repetition
\* of a character class (\s+ is Many("space", 1), \s* is Many("space", 0)), the
\* captured name, and one character of a set
Lit(text) == [kind |-> "lit", text |-> text]

Many(class, min) == [kind |-> "many", class |-> class, min |-> min]

Name(first, rest) == [kind |-> "name", first |-> first, rest |-> rest]

OneOf(chars) == [kind |-> "oneof", chars |-> chars]

\* the match of the elements k.. of a pattern at position i of s:
\* [ok, next, capture].  Every repetition of these patterns is followed by an
\* element that none of the repeated characters can start, so the greedy
\* match is the only one.
RECURSIVE MatchElements(_, _, _, _, _)
MatchElements(elements, k, s, i, capture) ==
    LET no == [ok |-> FALSE, next |-> i, capture |-> <<>>]
        e  == elements[k]
    IN  IF k > Len(elements) THEN [ok |-> TRUE, next |-> i, capture |-> capture]
        ELSE IF e.kind = "lit"
        THEN IF LiteralAt(s, e.text, i)
             THEN MatchElements(elements, k + 1, s, i + Len(e.text), capture) ELSE no
        ELSE IF e.kind = "many"
        THEN IF RunLength(e.class, s, i) >= e.min
             THEN MatchElements(elements, k + 1, s, i + RunLength(e.class, s, i), capture)
             ELSE no
        ELSE IF e.kind = "name"
        THEN IF i <= Len(s) /\ InClass(e.first, s[i])
             THEN LET n == 1 + RunLength(e.rest, s, i + 1)
                  IN  MatchElements(elements, k + 1, s, i + n, SubSeq(s, i, i + n - 1))
             ELSE no
        ELSE IF i <= Len(s) /\ s[i] \in e.chars
             THEN MatchElements(elements, k + 1, s, i + 1, capture) ELSE no

\* re.findall(pattern, content) of a pattern with one group, from position i
RECURSIVE FindAll(_, _, _)
FindAll(elements, s, i) ==
    IF i > Len(s) THEN <<>>
    ELSE LET m == MatchElements(elements, 1, s, i, <<>>)
         IN  IF m.ok THEN <<m.capture>> \o FindAll(elements, s, m.next)
             ELSE FindAll(elements, s, i + 1)

\* lines 85-89, the patterns of '.py':
\*   def\s+([a-zA-Z_][a-zA-Z0-9_]*)\s*\(
\*   class\s+([a-zA-Z_][a-zA-Z0-9_]*)\s*[\(:]
\*   async\s+def\s+([a-zA-Z_][a-zA-Z0-9_]*)\s*\(
PythonPatterns ==
    << << Lit(<<"d","e","f">>), Many("space", 1), Name("name_start", "name"),
          Many("space", 0), OneOf({"("}) >>,
       << Lit(<<"c","l","a","s","s">>), Many("space", 1), Name("name_start", "name"),
          Many("space", 0), OneOf({"(", ":"}) >>,
       << Lit(<<"a","s","y","n","c">>), Many("space", 1), Lit(<<"d","e","f">>),
          Many("space", 1), Name("name_start", "name"), Many("space", 0),
          OneOf({"("}) >> >>

\* lines 323-326, the patterns of '.lua':
\*   function\s+([a-zA-Z_][a-zA-Z0-9_.]*)\s*\(
\*   ([a-zA-Z_][a-zA-Z0-9_]*)\s*=\s*function\s*\(
LuaPatterns ==
    << << Lit(<<"f","u","n","c","t","i","o","n">>), Many("space", 1),
          Name("name_start", "dotted_name"), Many("space", 0), OneOf({"("}) >>,
       << Name("name_start", "name"), Many("space", 0), OneOf({"="}),
          Many("space", 0), Lit(<<"f","u","n","c","t","i","o","n">>),
          Many("space", 0), OneOf({"("}) >> >>

\* the branch of the if/elif chain on the extension: its patterns (the
\* languages other than Python and Lua are left out of the model, as is a
\* file of an extension that has no branch, which gives no name)
PatternsOf(extension) ==
    IF extension = <<".","p","y">> THEN PythonPatterns
    ELSE IF extension = <<".","l","u","a">> THEN LuaPatterns
    ELSE <<>>

\* for pattern in patterns: functions.extend(re.findall(pattern, content))
RECURSIVE ExtendWithMatches(_, _, _)
ExtendWithMatches(patterns, content, k) ==
    IF k > Len(patterns) THEN <<>>
    ELSE FindAll(patterns[k], content, 1) \o ExtendWithMatches(patterns, content, k + 1)

Range(s) == {s[k] : k \in DOMAIN s}

\* a variant that returns the list as it was captured
ListOfSet_keeping_repeats(functions) == {functions}

\* list(set(functions)): the lists it can return; the order of a set's
\* elements is not fixed
ListOfSet(functions) ==
    {l \in [1..Cardinality(Range(functions)) -> Range(functions)] :
        Range(l) = Range(functions)}

\* GitExtractor.get_function_names: the lists the call can return.  open()
\* raises for a path that cannot be read (a directory, no permission); the
\* handler of lines 333-335 returns [].
get_function_names(file) ==
    IF ~file.exists THEN {<<>>}
    ELSE IF ~file.readable THEN {<<>>}
    ELSE ListOfSet(ExtendWithMatches(PatternsOf(Suffix(file.file_path)), file.content, 1))

-----------------------------------------------------------------------------
(* src/core/git_extractor.py: get_comments_from_file *)

\* f.readlines(): the lines of the content, each with its '\n'
RECURSIVE readlines(_)
readlines(content) ==
    IF content = <<>> THEN <<>>
    ELSE LET p == FindFirst(content, <<"\n">>)
         IN  IF p = 0 THEN <<content>>
             ELSE <<SubSeq(content, 1, p)>> \o readlines(SubSeq(content, p + 1, Len(content)))

\* str.split('\n')
RECURSIVE split_lines(_)
split_lines(s) ==
    LET p == FindFirst(s, <<"\n">>)
    IN  IF p = 0 THEN <<s>>
        ELSE <<SubSeq(s, 1, p - 1)>> \o split_lines(SubSeq(s, p + 1, Len(s)))

MinCommentLength == 3       \* len(comment) > 3

\* `if comment and len(comment) > 3: comments.append(comment)`
Kept(comment) == IF Len(comment) > MinCommentLength THEN <<comment>> ELSE <<>>

\* the loop over the lines for the single-line markers `prefixes`, tried in
\* order: a line that starts with one of them gives the text after it
RECURSIVE LineComments(_, _)
LineComments(lines, prefixes) ==
    IF lines = <<>> THEN <<>>
    ELSE LET stripped == str_strip(lines[1])
             starting == {k \in DOMAIN prefixes : StartsWith(stripped, prefixes[k])}
             first    == CHOOSE k \in starting : \A m \in starting : k <= m
             comment  == str_strip(SubSeq(stripped, Len(prefixes[first]) + 1, Len(stripped)))
         IN  (IF starting = {} THEN <<>> ELSE Kept(comment))
                \o LineComments(Tail(lines), prefixes)

\* re.findall(open \s*(.*?)\s* close, content, re.DOTALL) from position i:
\* after `open` and the whitespace that follows it, the text up to the
\* whitespace before the first `close`
RECURSIVE FindDelimited(_, _, _, _)
FindDelimited(open, close, s, i) ==
    IF i > Len(s) THEN <<>>
    ELSE IF ~LiteralAt(s, open, i) THEN FindDelimited(open, close, s, i + 1)
    ELSE LET j    == i + Len(open) + RunLength("space", s, i + Len(open))
             ends == {e \in j..Len(s) : LiteralAt(s, close, e)}
             e    == CHOOSE x \in ends : \A y \in ends : x <= y
             p    == CHOOSE x \in j..e :
                        /\ \A y \in x..(e - 1) : s[y] \in Whitespace
                        /\ \A z \in j..(x - 1) : \E y \in z..(e - 1) : s[y] \notin Whitespace
         IN  IF ends = {} THEN FindDelimited(open, close, s, i + 1)
             ELSE <<SubSeq(s, j, p - 1)>> \o FindDelimited(open, close, s, e + Len(close))

RECURSIVE KeptEach(_)
KeptEach(comments) ==
    IF comments = <<>> THEN <<>>
    ELSE Kept(str_strip(comments[1])) \o KeptEach(Tail(comments))

\* lines 422-428: the lines of the /* */ comments
RECURSIVE BlockCommentLines(_)
BlockCommentLines(multiline_comments) ==
    IF multiline_comments = <<>> THEN <<>>
    ELSE KeptEach(split_lines(multiline_comments[1]))
            \o BlockCommentLines(Tail(multiline_comments))

\* the comments each branch of the chain collects
CommentsOfStyle(style, content) ==
    IF style = "#" THEN LineComments(readlines(content), << <<"#">> >>)
    ELSE IF style = "//" THEN LineComments(readlines(content), << <<"/","/">> >>)
    ELSE IF style = "--" THEN LineComments(readlines(content), << <<"-","-">> >>)
    ELSE IF style = "%" THEN LineComments(readlines(content), << <<"%">> >>)
    ELSE IF style = "<!-- -->"
    THEN KeptEach(FindDelimited(<<"<","!","-","-">>, <<"-","-",">">>, content, 1))
            \o LineComments(readlines(content), << <<"/","/">> >>)
    ELSE IF style = "/* */"
    THEN BlockCommentLines(FindDelimited(<<"/","*">>, <<"*","/">>, content, 1))
    ELSE \* "// or #", the PHP branch
         LineComments(readlines(content), << <<"/","/">>, <<"#">> >>)

\* the branches of the if/elif chain of lines 361-431, in order: the
\* extensions each tests for and the comments it collects.  (The branches
\* after them, lines 440-554, test for extensions of the first three lists.)
CommentBranches ==
    << [style |-> "#", extensions |->
          {<<".","p","y">>, <<".","r","b">>, <<".","r">>, <<".","p","l">>,
           <<".","s","h">>, <<".","b","a","s","h">>, <<".","z","s","h">>,
           <<".","f","i","s","h">>, <<".","p","s","1">>, <<".","y","a","m","l">>,
           <<".","y","m","l">>} ],
       [style |-> "//", extensions |->
          {<<".","j","s">>, <<".","t","s">>, <<".","j","s","x">>, <<".","t","s","x">>,
           <<".","j","a","v","a">>, <<".","c">>, <<".","c","p","p">>, <<".","h">>,
           <<".","h","p","p">>, <<".","c","s">>, <<".","g","o">>, <<".","r","s">>,
           <<".","k","t">>, <<".","s","w","i","f","t">>, <<".","d","a","r","t">>,
           <<".","s","c","a","l","a">>, <<".","m">>} ],
       [style |-> "--", extensions |->
          {<<".","s","q","l">>, <<".","l","u","a">>, <<".","h","s">>} ],
       [style |-> "%", extensions |->
          {<<".","m">>, <<".","m","a","t","l","a","b">>} ],
       [style |-> "<!-- -->", extensions |->
          {<<".","h","t","m","l">>, <<".","h","t","m">>, <<".","x","m","l">>,
           <<".","v","u","e">>, <<".","s","v","e","l","t","e">>} ],
       [style |-> "/* */", extensions |->
          {<<".","c">>, <<".","c","p","p">>, <<".","h">>, <<".","h","p","p">>,
           <<".","j","a","v","a">>, <<".","j","s">>, <<".","t","s">>,
           <<".","j","s","x">>, <<".","t","s","x">>, <<".","c","s">>,
           <<".","p","h","p">>, <<".","s","c","a","l","a">>,
           <<".","s","w","i","f","t">>, <<".","k","t">>, <<".","d","a","r","t">>} ],
       [style |-> "// or #", extensions |->
          {<<".","p","h","p">>} ] >>

\* a variant in which an extension that no branch lists takes the first branch
FirstBranch_defaulting(extension) ==
    LET matching == {k \in DOMAIN CommentBranches : extension \in CommentBranches[k].extensions}
    IN  IF matching = {} THEN 1
        ELSE CHOOSE k \in matching : \A m \in matching : k <= m

\* the first branch whose test the extension passes, 0 when none
FirstBranch(extension) ==
    LET matching == {k \in DOMAIN CommentBranches : extension \in CommentBranches[k].extensions}
    IN  IF matching = {} THEN 0
        ELSE CHOOSE k \in matching : \A m \in matching : k <= m

\* GitExtractor.get_comments_from_file; the handler of lines 558-560 returns
\* [] when open() raises
get_comments_from_file(file) ==
    IF ~file.exists \/ ~file.readable \/ FirstBranch(Suffix(file.file_path)) = 0 THEN <<>>
    ELSE CommentsOfStyle(CommentBranches[FirstBranch(Suffix(file.file_path))].style,
                         file.content)

-----------------------------------------------------------------------------
(* The two file extractions as a state machine: one call on one file *)

\* lines of source files
SourceLines ==
    {<<"d","e","f"," ","r","u","n","(">>,
     <<"a","s","y","n","c"," ","d","e","f"," ","r","u","n","(">>,
     <<"c","l","a","s","s"," ","J","o","b",":">>,
     <<"u","n","d","e","f"," ","g","o","(">>,
     <<"f","u","n","c","t","i","o","n"," ","m",".","r","u","n","(">>,
     <<"r","u","n"," ","="," ","f","u","n","c","t","i","o","n","(">>,
     <<"/","/"," ","l","i","n","e"," ","c","o","m","m","e","n","t">>,
     <<"#"," ","h","a","s","h"," ","c","o","m","m","e","n","t">>,
     <<"/","*"," ","b","l","o","c","k"," ","c","o","m","m","e","n","t"," ","*","/">>,
     <<"-","-"," ","d","a","s","h","e","s"," ","h","e","r","e">>}

MaxLines == 2

\* the lines joined by '\n'
RECURSIVE JoinLines(_)
JoinLines(lines) ==
    IF lines = <<>> THEN <<>>
    ELSE IF Len(lines) = 1 THEN lines[1]
    ELSE lines[1] \o <<"\n">> \o JoinLines(Tail(lines))

ContentAllStyles ==
    <<"<","?","p","h","p","\n","/","/"," ","l","i","n","e"," ","c","o","m","m","e","n","t","\n","#"," ","h","a","s","h"," ","c","o","m","m","e","n","t","\n","/","*"," ","b","l","o","c","k"," ","c","o","m","m","e","n","t"," ","*","/","\n">>
    \* "<?php\n// line comment\n# hash comment\n/* block comment */\n"

ContentBlock ==
    <<"/","*"," ","f","i","r","s","t"," ","l","i","n","e","\n"," ","*"," ","s","e","c","o","n","d"," ","l","i","n","e","\n"," ","*","/","\n","/","/"," ","a","f","t","e","r"," ","t","h","e"," ","b","l","o","c","k","\n">>
    \* "/* first line\n * second line\n */\n// after the block\n"

ContentHtmlMixed ==
    <<"/","/"," ","f","i","r","s","t"," ","n","o","t","e","\n","<","!","-","-"," ","s","e","c","o","n","d"," ","n","o","t","e"," ","-","-",">","\n","/","/","a","b","\n","<","!","-","-"," ","s","e","c","o","n","d"," ","n","o","t","e"," ","-","-",">">>
    \* "// first note\n<!-- second note -->\n//ab\n<!-- second note -->"

ContentHtmlLines ==
    <<"<","!","-","-","\n","/","/"," ","i","n","n","e","r"," ","n","o","t","e","\n"," "," ","m","o","r","e"," ","t","e","x","t","\n","-","-",">","\n","<","!","-","-"," ","a","b"," ","-","-",">">>
    \* "<!--\n// inner note\n  more text\n-->\n<!-- ab -->"

ContentShortLines ==
    <<"#"," ","a"," ","b","\n","#"," "," ","\n","#"," ","s","a","m","e"," ","o","n","e","\n","#"," ","s","a","m","e"," ","o","n","e","\n","/","/"," ","a","b","\n","/","/"," ","s","a","m","e"," ","o","n","e">>
    \* "# a b\n#  \n# same one\n# same one\n// ab\n// same one"

ContentShortBlock ==
    <<"/","*"," ","a","b"," ","*","/","\n","/","*"," ","s","a","m","e"," ","o","n","e","\n","\n"," ","x","y","\n"," ","s","a","m","e"," ","o","n","e"," ","*","/">>
    \* "/* ab */\n/* same one\n\n xy\n same one */"

Contents ==
    {JoinLines(f) : f \in UNION {[1..n -> SourceLines] : n \in 0..MaxLines}}
        \cup {ContentAllStyles, ContentBlock, ContentHtmlMixed, ContentHtmlLines,
              ContentShortLines, ContentShortBlock}

\* file names of the languages whose name patterns are modelled
NamedFiles ==
    {<<"m","o","d",".","p","y">>, <<"M","O","D",".","P","Y">>,
     <<"i","n","i","t",".","l","u","a">>, <<"n","o","t","e","s",".","t","x","t">>}

\* file names for the comment extraction
CommentedFiles ==
    {<<"m","o","d",".","p","y">>, <<"i","n","i","t",".","l","u","a">>,
     <<"v","i","e","w",".","p","h","p">>, <<"a","p","p",".","j","s">>,
     <<"m","a","i","n",".","c">>, <<"p","a","g","e",".","h","t","m","l">>,
     <<"c","a","l","c",".","m">>, <<"n","o","t","e","s",".","t","x","t">>}

File(file_path, content, exists) ==
    [file_path |-> file_path, content |-> content, exists |-> exists, readable |-> TRUE]

\* a path that exists and that open() cannot read
UnreadableFile(file_path) ==
    [file_path |-> file_path, content |-> <<>>, exists |-> TRUE, readable |-> FALSE]

FileFunctions == {"get_function_names", "get_comments_from_file"}

InitExtractor ==
    /\ op \in FileFunctions
    /\ arg \in {File(p, c, TRUE) :
                    p \in (IF op = "get_function_names" THEN NamedFiles ELSE CommentedFiles),
                    c \in Contents}
                \cup {File(p, <<>>, FALSE) : p \in NamedFiles}
                \cup {UnreadableFile(p) : p \in NamedFiles}
    /\ ret = NoReturn
    /\ repositories = <<>>
    /\ repo_index = 1
    /\ stats = EmptyDict
    /\ phase = "folding"
    /\ report = ZeroCounts
    /\ commits_in = <<>>
    /\ region_out = NoRegionCall

GetFunctionNames ==
    op = "get_function_names" /\ \E names \in get_function_names(arg) : Return(names)

GetCommentsFromFile ==
    op = "get_comments_from_file" /\ Return(get_comments_from_file(arg))

NextExtractor ==
    \/ GetFunctionNames
    \/ GetCommentsFromFile

SpecExtractor == InitExtractor /\ [][NextExtractor]_vars

-----------------------------------------------------------------------------
(* Claims about the file extractions *)

NamesReturned == op = "get_function_names" /\ ret.returned

\* what the patterns of the file's language capture, pattern by pattern
CapturesOf(file) ==
    LET patterns == PatternsOf(Suffix(file.file_path))
    IN  [k \in DOMAIN patterns |-> FindAll(patterns[k], file.content, 1)]

(* C19: the names returned by get_function_names contain no duplicate, a name
   captured several times by one pattern or by several patterns appears
   once; the set of names is exactly the union of the captures of all
   patterns of the file's language; the set is the same for every run on the
   same content (it is a function of the content alone). *)
C19_NamesAreTheSetOfCaptures ==
    NamesReturned /\ arg.exists =>
        /\ \A i, j \in DOMAIN ret.value : ret.value[i] = ret.value[j] => i = j
        /\ Range(ret.value) = UNION {Range(CapturesOf(arg)[k]) : k \in DOMAIN CapturesOf(arg)}

\* 'run' is captured twice by the first pattern and once by the third, 'Job'
\* once by the second
C19_Witness ==
    /\ NamesReturned
    /\ arg.exists
    /\ Suffix(arg.file_path) = <<".","p","y">>
    /\ \E i, j \in DOMAIN CapturesOf(arg)[1] : i # j /\ CapturesOf(arg)[1][i] = CapturesOf(arg)[1][j]
    /\ Range(CapturesOf(arg)[1]) \cap Range(CapturesOf(arg)[3]) # {}
    /\ Len(ret.value) = 1

CommentsReturned == op = "get_comments_from_file" /\ ret.returned

\* the comment styles declared for an extension: those of every branch that
\* lists it
DeclaredStyles(extension) ==
    {CommentBranches[k].style :
        k \in {b \in DOMAIN CommentBranches : extension \in CommentBranches[b].extensions}}

(* C20: for an extension whose rule declares more than one comment style,
   get_comments_from_file applies every declared style: a PHP file yields its
   '//' comments, its '#' comments and its block comments, a C-family or
   JS/TS file both its '//' comments and its block comments; the extraction
   never stops at the first style that applies. *)
C20_EveryDeclaredStyleApplied ==
    CommentsReturned /\ arg.exists
            /\ DeclaredStyles(Suffix(arg.file_path)) \in
                    {{"/* */", "// or #"}, {"//", "/* */"}} =>
        \A style \in DeclaredStyles(Suffix(arg.file_path)) :
            Range(CommentsOfStyle(style, arg.content)) \subseteq Range(ret.value)

-----------------------------------------------------------------------------
(* Claims about the comments get_comments_from_file returns *)

CommentsRead == CommentsReturned /\ arg.exists /\ arg.readable

\* the single-line comments of the lines from position `at` of the content
\* on, each with the position of its line
RECURSIVE LineOccurrences(_, _, _)
LineOccurrences(lines, prefix, at) ==
    IF lines = <<>> THEN <<>>
    ELSE LET stripped == str_strip(lines[1])
             text     == str_strip(SubSeq(stripped, Len(prefix) + 1, Len(stripped)))
         IN  (IF StartsWith(stripped, prefix) /\ Len(text) > 3
              THEN <<[at |-> at, text |-> text]>> ELSE <<>>)
                \o LineOccurrences(Tail(lines), prefix, at + Len(lines[1]))

\* the positions at which a comment pair open ... close starts, the search
\* for the next pair resuming after the close of the last
RECURSIVE PairStarts(_, _, _, _)
PairStarts(open, close, s, i) ==
    IF i > Len(s) THEN <<>>
    ELSE LET closes == {e \in (i + Len(open))..Len(s) : LiteralAt(s, close, e)}
             e      == CHOOSE x \in closes : \A y \in closes : x <= y
         IN  IF LiteralAt(s, open, i) /\ closes # {}
             THEN <<[at |-> i, close |-> e]>> \o PairStarts(open, close, s, e + Len(close))
             ELSE PairStarts(open, close, s, i + 1)

\* the body of a pair, stripped
BodyOf(open, s, pair) == str_strip(SubSeq(s, pair.at + Len(open), pair.close - 1))

\* the <!-- --> comments, each with the position of its pair
HtmlOccurrences(s) ==
    LET pairs == PairStarts(<<"<","!","-","-">>, <<"-","-",">">>, s, 1)
        kept  == SelectSeq(pairs, LAMBDA pair : Len(BodyOf(<<"<","!","-","-">>, s, pair)) > 3)
    IN  [k \in DOMAIN kept |-> [at |-> kept[k].at, text |-> BodyOf(<<"<","!","-","-">>, s, kept[k])]]

\* the lines of the /* */ comments, each with the position of its pair
RECURSIVE BlockOccurrences(_, _)
BlockOccurrences(s, pairs) ==
    IF pairs = <<>> THEN <<>>
    ELSE LET lines == split_lines(BodyOf(<<"/","*">>, s, pairs[1]))
             kept  == SelectSeq(lines, LAMBDA line : Len(str_strip(line)) > 3)
         IN  [k \in DOMAIN kept |-> [at |-> pairs[1].at, text |-> str_strip(kept[k])]]
                \o BlockOccurrences(s, Tail(pairs))

\* the comments of length > 3 of a file, style by style as the branch of its
\* extension reads them
OccurrencesOf(file) ==
    LET style == CommentBranches[FirstBranch(Suffix(file.file_path))].style
        s     == file.content
    IN  IF FirstBranch(Suffix(file.file_path)) = 0 THEN <<>>
        ELSE IF style = "#" THEN LineOccurrences(readlines(s), <<"#">>, 1)
        ELSE IF style = "//" THEN LineOccurrences(readlines(s), <<"/","/">>, 1)
        ELSE IF style = "--" THEN LineOccurrences(readlines(s), <<"-","-">>, 1)
        ELSE IF style = "%" THEN LineOccurrences(readlines(s), <<"%">>, 1)
        ELSE IF style = "<!-- -->"
        THEN HtmlOccurrences(s) \o LineOccurrences(readlines(s), <<"/","/">>, 1)
        ELSE BlockOccurrences(s, PairStarts(<<"/","*">>, <<"*","/">>, s, 1))

\* the occurrences in order of appearance in the file
RECURSIVE InOrderOfAppearance(_)
InOrderOfAppearance(occurrences) ==
    IF occurrences = <<>> THEN <<>>
    ELSE LET n      == Len(occurrences)
             sorted == InOrderOfAppearance(SubSeq(occurrences, 1, n - 1))
             before == SelectSeq(sorted, LAMBDA o : o.at <= occurrences[n].at)
             after  == SelectSeq(sorted, LAMBDA o : o.at > occurrences[n].at)
         IN  before \o <<occurrences[n]>> \o after

TextsOf(occurrences) == [k \in DOMAIN occurrences |-> occurrences[k].text]

NoShortComment ==
    \A k \in DOMAIN ret.value :
        Len(ret.value[k]) > 3 /\ Len(str_strip(ret.value[k])) > 3

(* C21: no string of length <= 3 after stripping, and no empty
   string, is in the list get_comments_from_file returns; the comments are
   returned in order of appearance in the file, a repeated comment once per
   occurrence. *)
C21_LongCommentsInOrderOfAppearance ==
    CommentsRead =>
        /\ NoShortComment
        /\ ret.value = TextsOf(InOrderOfAppearance(OccurrencesOf(arg)))

(* What holds in place of C21: the same, the comments being in order of
   appearance within each comment style only: in a file of the HTML/XML
   branch the <!-- --> comments come first, the '//' comments after them. *)
C21_LongCommentsInOrderPerStyle ==
    CommentsRead =>
        /\ NoShortComment
        /\ ret.value = TextsOf(OccurrencesOf(arg))

\* an HTML file with a '//' comment before two equal <!-- --> comments and a
\* short '//' comment between them
C21_Witness ==
    /\ CommentsRead
    /\ Suffix(arg.file_path) = <<".","h","t","m","l">>
    /\ arg.content = ContentHtmlMixed
    /\ Len(ret.value) = 3
    /\ ret.value[1] = ret.value[2]
    /\ ret.value[3] = <<"f","i","r","s","t"," ","n","o","t","e">>


\* the file gives the call nothing to read: it is missing, cannot be read, or
\* its extension has no rule
NothingToExtract ==
    \/ ~arg.exists
    \/ ~arg.readable
    \/ op = "get_function_names" /\ PatternsOf(Suffix(arg.file_path)) = <<>>
    \/ op = "get_comments_from_file" /\ DeclaredStyles(Suffix(arg.file_path)) = {}

(* C22: get_function_names and get_comments_from_file fail soft: for a file
   whose extension has no rule, a file that does not exist or a file that
   cannot be read, the call returns the empty list (it returns a list in
   every case, never raising). *)
C22_FailSoftEmptyList ==
    ret.returned /\ NothingToExtract => ret.value = <<>>

\* a readable text file full of comment markers, with an extension no branch
\* lists: nothing is returned
C22_Witness ==
    /\ CommentsRead
    /\ DeclaredStyles(Suffix(arg.file_path)) = {}
    /\ arg.content = ContentAllStyles
    /\ ret.value = <<>>

\* a file that cannot be read, behind an extension that has a rule
C22_WitnessUnreadable ==
    /\ ret.returned
    /\ arg.exists /\ ~arg.readable
    /\ Suffix(arg.file_path) = <<".","p","y">>
    /\ ret.value = <<>>

-----------------------------------------------------------------------------
(* src/core/sentiment_analyzer.py: SentimentAnalyzer *)

\* the label the except clauses of analyze_text and _analyze_with_openai
\* return (the confidence a percentage, as with the mock labels)
ErrorLabel == [sentiment |-> "ERROR", confidence |-> 0]

\* the two fallbacks of analyze_text: results that are no non-empty list, or a
\* model type that is neither "huggingface" nor "openai"
NeutralLabel == [sentiment |-> "NEUTRAL", confidence |-> 50]

\* label_mapping of lines 95-102
label_mapping ==
    [LABEL_0 |-> "NEGATIVE", LABEL_1 |-> "NEUTRAL", LABEL_2 |-> "POSITIVE",
     NEGATIVE |-> "NEGATIVE", NEUTRAL |-> "NEUTRAL", POSITIVE |-> "POSITIVE"]

\* the huggingface branch of analyze_text on what self.model(text) gave:
\* `response.kind` is "raises" (the call raised), "empty" (no non-empty
\* list), "nested" (a list of lists) or "flat" (a list of dicts)
analyze_with_huggingface(response) ==
    IF response.kind = "raises" THEN ErrorLabel
    ELSE IF response.kind = "empty" THEN NeutralLabel
    ELSE [sentiment  |-> Get(label_mapping, response.label, "NEUTRAL"),
          confidence |-> response.score]

\* str.upper() of the sentiments a reply can carry
str_upper ==
    [positive |-> "POSITIVE", NEGATIVE |-> "NEGATIVE", Neutral |-> "NEUTRAL",
     mixed |-> "MIXED"]

PositiveHints ==
    << <<"p","o","s","i","t","i","v","e">>, <<"g","o","o","d">>, <<"g","r","e","a","t">>,
       <<"e","x","c","e","l","l","e","n","t">> >>

NegativeHints ==
    << <<"n","e","g","a","t","i","v","e">>, <<"b","a","d">>,
       <<"t","e","r","r","i","b","l","e">>, <<"a","w","f","u","l">> >>

\* the fallback of lines 210-218 on a reply that is no JSON
FallbackLabel(content) ==
    IF WordCount(PositiveHints, Lower(content)) > 0
    THEN [sentiment |-> "POSITIVE", confidence |-> 70]
    ELSE IF WordCount(NegativeHints, Lower(content)) > 0
    THEN [sentiment |-> "NEGATIVE", confidence |-> 70]
    ELSE [sentiment |-> "NEUTRAL", confidence |-> 50]

\* the values of the "confidence" field of a reply
JsonNumber(n) == [type |-> "number", value |-> n]
JsonString(s) == [type |-> "string", value |-> s]

\* SentimentAnalyzer._analyze_with_openai on what the API call gave:
\* `response.kind` is "raises" (the request raised), "json" (a JSON object,
\* with the fields `response.result` has), "json_other" (JSON that is no
\* object: result.get raises) or "prose" (no JSON: the fallback reads it)
analyze_with_openai(response) ==
    IF response.kind \in {"raises", "json_other"} THEN ErrorLabel
    ELSE IF response.kind = "prose" THEN FallbackLabel(response.content)
    ELSE LET result     == response.result
             confidence == Get(result, "confidence", JsonNumber(50))
         IN  \* float("high") raises ValueError, caught by the outer except
             IF confidence.type # "number" THEN ErrorLabel
             ELSE [sentiment  |-> IF "sentiment" \in DOMAIN result
                                  THEN str_upper[result.sentiment] ELSE "NEUTRAL",
                   confidence |-> confidence.value]

\* the try block of analyze_text, lines 83-128
ClassifyText(model_type, response) ==
    IF model_type = "huggingface" THEN analyze_with_huggingface(response)
    ELSE IF model_type = "openai" THEN analyze_with_openai(response)
    ELSE NeutralLabel

\* SentimentAnalyzer.analyze_text: `if not self.model: self.load_model()`
\* stands before the try block, and load_model re-raises what it caught.
\* `load` is what load_model does when called; the result tells whether the
\* call raised, what self.model is afterwards, and the dict returned.
analyze_text(model, model_type, text, load, response) ==
    IF model = None /\ load = "fails"
    THEN [raised |-> TRUE, model |-> None, value |-> None]
    ELSE [raised |-> FALSE, model |-> "model",
          value |-> [text |-> text] @@ ClassifyText(model_type, response)]

-----------------------------------------------------------------------------
(* The analyzer as a state machine: one call of analyze_text, analyze_batch or
   analyze_commit_messages, text by text, and one call of the mock analysis
   of MoodAggregator.  Here `stats` is self.model, `arg` the call's input with
   the outcome of every external call it will make, `repo_index` the position
   in the texts, `report` the labels so far. *)

MaxTexts == 2

MsgFixAddUpdateFeature ==
    <<"f","i","x"," ","a","d","d"," ","u","p","d","a","t","e"," ","f","e","a","t","u","r","e">>
    \* "fix add update feature"

AnalyzerTexts == {MsgFixBug, MsgDocs, MsgFixAddUpdateFeature}

HuggingfaceResponses ==
    {[kind |-> "raises"], [kind |-> "empty"]}
        \cup {[kind |-> "nested", label |-> l, score |-> 98] :
                l \in {"LABEL_0", "LABEL_2", "NEUTRAL", "positive"}}
        \cup {[kind |-> "flat", label |-> "LABEL_1", score |-> 2]}

ContentGood == <<"L","o","o","k","s"," ","G","o","o","d">>
ContentBad == <<"r","a","t","h","e","r"," ","b","a","d">>
ContentUnclear == <<"u","n","c","l","e","a","r">>

OpenaiResponses ==
    {[kind |-> "raises"], [kind |-> "json_other"]}
        \cup {[kind |-> "json", result |-> r] :
                r \in {[sentiment |-> "positive", confidence |-> JsonNumber(90)],
                       [sentiment |-> "mixed", confidence |-> JsonNumber(150)],
                       [sentiment |-> "NEGATIVE", confidence |-> JsonString("high")],
                       [sentiment |-> "Neutral"],
                       [confidence |-> JsonNumber(80)]}}
        \cup {[kind |-> "prose", content |-> c] : c \in {ContentGood, ContentBad, ContentUnclear}}

ResponsesOf(model_type) ==
    IF model_type = "huggingface" THEN HuggingfaceResponses
    ELSE IF model_type = "openai" THEN OpenaiResponses
    ELSE {[kind |-> "none"]}

SeqsUpTo(S, n) == UNION {[1..k -> S] : k \in 0..n}

AnalyzerFunctions == {"analyze_text", "analyze_batch", "analyze_commit_messages"}

CommitOf(message) == [hash |-> "abc123", message |-> message]

InitAnalyzer ==
    /\ op \in AnalyzerFunctions \cup {"_analyze_commits_sentiment"}
    /\ arg \in IF op = "_analyze_commits_sentiment"
               THEN {[texts |-> t] : t \in SeqsUpTo(AnalyzerTexts, MaxTexts)}
               ELSE UNION {{[model_type |-> m, texts |-> t, responses |-> r, load |-> l] :
                                r \in [DOMAIN t -> ResponsesOf(m)],
                                \* load_model raises for a model type it does not support
                                l \in (IF m = "other" THEN {"fails"} ELSE {"loads", "fails"})} :
                            m \in {"huggingface", "openai", "other"},
                            t \in (IF op = "analyze_text" THEN [1..1 -> {MsgFixBug}]
                                   ELSE SeqsUpTo({MsgFixBug, MsgDocs}, MaxTexts))}
    /\ stats \in {None, "model"}
    /\ repo_index = 1
    /\ report = <<>>
    /\ phase = "running"
    /\ ret = NoReturn
    /\ repositories = <<>>
    /\ commits_in = <<>>
    /\ region_out = NoRegionCall

\* the call of analyze_text on the text at repo_index
TextCall ==
    analyze_text(stats, arg.model_type, arg.texts[repo_index], arg.load,
                 arg.responses[repo_index])

AnalyzeText ==
    /\ op = "analyze_text" /\ phase = "running"
    /\ stats' = TextCall.model
    /\ phase' = IF TextCall.raised THEN "raised" ELSE "returned"
    /\ ret' = IF TextCall.raised THEN ret ELSE [returned |-> TRUE, value |-> TextCall.value]
    /\ UNCHANGED <<op, repositories, repo_index, report, commits_in, region_out, arg>>

\* one element of the comprehension of analyze_batch
AnalyzeBatchStep ==
    /\ op \in {"analyze_batch", "analyze_commit_messages"} /\ phase = "running"
    /\ repo_index <= Len(arg.texts)
    /\ stats' = TextCall.model
    /\ phase' = IF TextCall.raised THEN "raised" ELSE phase
    /\ report' = IF TextCall.raised THEN report ELSE Append(report, TextCall.value)
    /\ repo_index' = repo_index + 1
    /\ UNCHANGED <<op, repositories, commits_in, region_out, arg, ret>>

\* analyze_batch returns the list; analyze_commit_messages sets it element by
\* element on its commits, `commit['sentiment'] = sentiments[i]`
AnalyzeBatchReturn ==
    /\ op \in {"analyze_batch", "analyze_commit_messages"} /\ phase = "running"
    /\ repo_index > Len(arg.texts)
    /\ phase' = "returned"
    /\ ret' = [returned |-> TRUE,
               value |-> IF op = "analyze_batch" THEN report
                         ELSE [k \in DOMAIN report |->
                                 Put(CommitOf(arg.texts[k]), "sentiment", report[k])]]
    /\ UNCHANGED <<op, repositories, repo_index, stats, report, commits_in, region_out, arg>>

MockAnalyzeCommits ==
    /\ op = "_analyze_commits_sentiment" /\ phase = "running"
    /\ phase' = "returned"
    /\ ret' = [returned |-> TRUE,
               value |-> analyze_commits_sentiment(
                            [k \in DOMAIN arg.texts |-> CommitOf(arg.texts[k])])]
    /\ UNCHANGED <<op, repositories, repo_index, stats, report, commits_in, region_out, arg>>

NextAnalyzer ==
    \/ AnalyzeText
    \/ AnalyzeBatchStep
    \/ AnalyzeBatchReturn
    \/ MockAnalyzeCommits

SpecAnalyzer == InitAnalyzer /\ [][NextAnalyzer]_vars


-----------------------------------------------------------------------------
(* Claims about the labels *)

AnalyzerCallOver == op \in AnalyzerFunctions /\ phase \in {"returned", "raised"}

\* the external call for the text at position k failed
ClassifierFailed(k) == arg.responses[k].kind = "raises"

\* the label the call gave the text at position k
LabelAt(k) ==
    IF op = "analyze_text" THEN ret.value
    ELSE IF op = "analyze_batch" THEN ret.value[k]
    ELSE ret.value[k].sentiment

(* C23: whatever external call fails (the local model call, the remote API
   call, the loading of the model on first use inside analyze_text),
   analyze_text returns the label {ERROR, 0.0} for the text instead of
   raising, and so analyze_batch and analyze_commit_messages return exactly
   one label per input, in input order. *)
C23_ClassifierFailureGivesErrorLabel ==
    AnalyzerCallOver =>
        /\ phase = "returned"
        /\ op # "analyze_text" => Len(ret.value) = Len(arg.texts)
        /\ \A k \in DOMAIN arg.texts :
              /\ LabelAt(k).text = arg.texts[k]
              /\ ClassifierFailed(k) =>
                    /\ LabelAt(k).sentiment = "ERROR"
                    /\ LabelAt(k).confidence = 0

(* What holds in place of C23: the same when the model is loaded before the
   call, or loads on first use. *)
C23_FailureOfLoadedClassifierGivesErrorLabel ==
    AnalyzerCallOver /\ ~(stats = None /\ arg.load = "fails" /\ arg.texts # <<>>) =>
        /\ phase = "returned"
        /\ op # "analyze_text" => Len(ret.value) = Len(arg.texts)
        /\ \A k \in DOMAIN arg.texts :
              /\ LabelAt(k).text = arg.texts[k]
              /\ ClassifierFailed(k) =>
                    /\ LabelAt(k).sentiment = "ERROR"
                    /\ LabelAt(k).confidence = 0

\* the model fails to load on first use: the call raises
C23_LoadFailureRaises ==
    /\ op = "analyze_text" /\ phase = "raised"
    /\ arg.load = "fails" /\ ~ret.returned

LabelCategories == {"POSITIVE", "NEUTRAL", "NEGATIVE", "ERROR"}

\* the labels a call has returned
LabelsReturned ==
    IF ~ret.returned THEN {}
    ELSE IF op = "analyze_text" THEN {ret.value}
    ELSE IF op = "analyze_batch" THEN Range(ret.value)
    ELSE {ret.value[k].sentiment : k \in DOMAIN ret.value}

(* C24: every label, from the huggingface path, the openai path or the mock
   analysis of MoodAggregator, has a category in {POSITIVE, NEUTRAL,
   NEGATIVE, ERROR} and a confidence in [0, 1]. *)
C24_LabelInCategoriesAndUnitInterval ==
    \A label \in LabelsReturned :
        /\ label.sentiment \in LabelCategories
        /\ label.confidence \in 0..100

(* What holds in place of C24, of the huggingface path alone, the scores of
   the model being in [0, 1]. *)
C24_HuggingfaceLabelInCategories ==
    op \in AnalyzerFunctions /\ arg.model_type = "huggingface" =>
        \A label \in LabelsReturned :
            /\ label.sentiment \in LabelCategories
            /\ label.confidence \in 0..100

\* the mock label of a message with four positive words
C24_MockConfidenceAboveOne ==
    /\ op = "_analyze_commits_sentiment" /\ ret.returned
    /\ \E k \in DOMAIN ret.value : ret.value[k].sentiment.confidence > 100

\* the openai label of a reply with another category
C24_OpenaiOtherCategory ==
    /\ op = "analyze_text" /\ ret.returned /\ arg.model_type = "openai"
    /\ ret.value.sentiment \notin LabelCategories


-----------------------------------------------------------------------------
(* src/core/git_extractor.py: get_commit_messages *)

\* str.split(sep, maxsplit) for a separator of one character
RECURSIVE str_split(_, _, _)
str_split(s, sep, maxsplit) ==
    LET p == FindFirst(s, <<sep>>)
    IN  IF maxsplit = 0 \/ p = 0 THEN <<s>>
        ELSE <<SubSeq(s, 1, p - 1)>> \o str_split(SubSeq(s, p + 1, Len(s)), sep, maxsplit - 1)

\* the body of the loop over the lines, lines 32-42
RECURSIVE CommitsOfLines(_)
CommitsOfLines(lines) ==
    IF lines = <<>> THEN <<>>
    ELSE LET line  == lines[1]
             parts == str_split(line, "|", 4)
         IN  (IF line # <<>> /\ Len(parts) = 5
              THEN <<[hash |-> parts[1], author |-> parts[2], email |-> parts[3],
                      date |-> parts[4], message |-> parts[5]]>>
              ELSE <<>>)
                \o CommitsOfLines(Tail(lines))

\* GitExtractor.get_commit_messages on what subprocess.run does: it
\* completes with `run.stdout`, raises CalledProcessError (check=True, exit
\* status not 0) or raises something else (no git executable: FileNotFoundError;
\* no such directory; a failing mock).  The handler of line 43 is for
\* subprocess.CalledProcessError alone.
get_commit_messages(run) ==
    IF run.outcome = "completed"
    THEN [raised |-> FALSE, value |-> CommitsOfLines(split_lines(str_strip(run.stdout)))]
    ELSE IF run.outcome = "CalledProcessError"
    THEN [raised |-> FALSE, value |-> <<>>]
    ELSE [raised |-> TRUE, value |-> None]

-----------------------------------------------------------------------------
(* get_commit_messages as a state machine: one call; `arg` is what
   subprocess.run does *)

\* lines of `git log --pretty=format:%H|%an|%ae|%ad|%s`
LogLines ==
    {<<"a","1","|","A","l","|","a","@","x","|","d","1","|","F","i","x"," ","b","u","g">>,
     \* "a1|Al|a@x|d1|Fix bug"
     <<"b","2","|","B","o","|","b","@","x","|","d","2","|","A","d","d"," ","a","|","b">>,
     \* "b2|Bo|b@x|d2|Add a|b": a subject with the separator in it
     <<"c","3","|","C","y","|","c","@","x","|","d","3">>,
     \* "c3|Cy|c@x|d3": four fields
     <<>>,
     <<"d","4","|","D","i","|","d","@","x","|","d","4","|">>,
     \* "d4|Di|d@x|d4|": an empty subject
     <<" ","e","5","|","E","d","|","e","@","x","|","d","5","|","D","o","c","s"," ">>,
     \* " e5|Ed|e@x|d5|Docs "
     <<"f","6","|","F","y","|","f","@","x","|","d","6","|","T","i","d","y">>}
     \* "f6|Fy|f@x|d6|Tidy"

MaxLogLines == 2

RunOutcomes == {"completed", "CalledProcessError", "FileNotFoundError", "Exception"}

InitLog ==
    /\ op = "get_commit_messages"
    /\ arg \in {[outcome |-> "completed", stdout |-> JoinLines(l) \o nl] :
                    l \in SeqsUpTo(LogLines, MaxLogLines), nl \in {<<>>, <<"\n">>}}
                \cup {[outcome |-> o, stdout |-> <<>>] : o \in RunOutcomes \ {"completed"}}
    /\ phase = "running"
    /\ ret = NoReturn
    /\ repositories = <<>>
    /\ repo_index = 1
    /\ stats = EmptyDict
    /\ report = ZeroCounts
    /\ commits_in = <<>>
    /\ region_out = NoRegionCall

GetCommitMessages ==
    /\ op = "get_commit_messages" /\ phase = "running"
    /\ phase' = IF get_commit_messages(arg).raised THEN "raised" ELSE "returned"
    /\ ret' = IF get_commit_messages(arg).raised THEN ret
              ELSE [returned |-> TRUE, value |-> get_commit_messages(arg).value]
    /\ UNCHANGED <<op, repositories, repo_index, stats, report, commits_in, region_out, arg>>

NextLog == GetCommitMessages

SpecLog == InitLog /\ [][NextLog]_vars

LogCallOver == op = "get_commit_messages" /\ phase \in {"returned", "raised"}

\* the number of separators in a line
SeparatorCount(line) == Cardinality({k \in DOMAIN line : line[k] = "|"})

\* the lines of the output that have five fields, in order
FiveFieldLines ==
    SelectSeq(split_lines(str_strip(arg.stdout)), LAMBDA line : SeparatorCount(line) >= 4)

\* the record is the line cut at its first four separators
IsRecordOf(commit, line) ==
    /\ line = commit.hash \o <<"|">> \o commit.author \o <<"|">> \o commit.email
                \o <<"|">> \o commit.date \o <<"|">> \o commit.message
    /\ SeparatorCount(commit.hash \o commit.author \o commit.email \o commit.date) = 0

OneRecordPerFiveFieldLine ==
    /\ phase = "returned"
    /\ Len(ret.value) = Len(FiveFieldLines)
    /\ \A k \in DOMAIN ret.value : IsRecordOf(ret.value[k], FiveFieldLines[k])

(* C26: get_commit_messages returns an empty list and raises nothing when the
   version-control command fails with any exception, not only a non-zero
   exit status; when it succeeds it returns one record per output line that
   has five '|'-separated fields, in output order. *)
C26_AnyFailureGivesEmptyList ==
    LogCallOver =>
        IF arg.outcome = "completed" THEN OneRecordPerFiveFieldLine
        ELSE phase = "returned" /\ ret.value = <<>>

(* What holds in place of C26: the same, of the failures with a non-zero
   exit status only. *)
C26_NonZeroExitGivesEmptyList ==
    LogCallOver /\ arg.outcome \in {"completed", "CalledProcessError"} =>
        IF arg.outcome = "completed" THEN OneRecordPerFiveFieldLine
        ELSE phase = "returned" /\ ret.value = <<>>

\* the command cannot be started: the exception leaves the call
C26_OtherFailureRaises ==
    /\ LogCallOver /\ arg.outcome = "FileNotFoundError"
    /\ phase = "raised" /\ ~ret.returned


-----------------------------------------------------------------------------
(* src/cli/main.py: analyze_repository, step by step.  `arg` is what the
   version-control command does, `phase` the position in the function,
   `commits_in` the commits it holds, `report` the log of what it has done:
   the warnings logged, the model loaded, the classification, the files
   written. *)

WarnNoCommits == "warning: No commits found in repository"
WarnNoMeaningful == "warning: No meaningful commits found after preprocessing"
WarnAdditional == "warning: Error extracting additional data"

\* a variant that never takes the early return of line 168
NoCommits_never(commits) == FALSE

\* `if not commits:` of line 168
NoCommits(commits) == commits = <<>>

\* the labels analyze_commit_messages can set on a commit
CliLabels ==
    {[sentiment |-> "POSITIVE", confidence |-> 98], [sentiment |-> "ERROR", confidence |-> 0]}

InitCli ==
    /\ op = "analyze_repository"
    /\ arg \in {[outcome |-> "completed", stdout |-> JoinLines(l) \o nl] :
                    l \in SeqsUpTo(LogLines, MaxLogLines), nl \in {<<>>, <<"\n">>}}
                \cup {[outcome |-> o, stdout |-> <<>>] : o \in RunOutcomes \ {"completed"}}
    /\ phase = "start"
    /\ report = <<>>
    /\ commits_in = <<>>
    /\ ret = NoReturn
    /\ repositories = <<>>
    /\ repo_index = 1
    /\ stats = EmptyDict
    /\ region_out = NoRegionCall

CliStep(next_phase, events, commits) ==
    /\ phase' = next_phase
    /\ report' = report \o events
    /\ commits_in' = commits
    /\ UNCHANGED <<op, repositories, repo_index, stats, region_out, arg, ret>>

\* lines 161-170: the statistics and the commits are read; a command that
\* raises anything but CalledProcessError raises here
CliExtractCommits ==
    /\ op = "analyze_repository" /\ phase = "start"
    /\ LET call == get_commit_messages(arg)
       IN  IF call.raised THEN CliStep("raised", <<>>, <<>>)
           ELSE IF NoCommits(call.value) THEN CliStep("returned", <<WarnNoCommits>>, call.value)
           ELSE CliStep("additional", <<>>, call.value)

\* lines 172-194: the comments and function names of the files, inside a try
\* whose handler logs a warning
CliExtractAdditional ==
    /\ op = "analyze_repository" /\ phase = "additional"
    /\ \E events \in {<<>>, <<WarnAdditional>>} : CliStep("preprocess", events, commits_in)

\* lines 196-203
CliPreprocess ==
    /\ op = "analyze_repository" /\ phase = "preprocess"
    /\ LET processed_commits == filter_meaningful_commits(commits_in, MinLengthDefault)
       IN  IF processed_commits = <<>>
           THEN CliStep("returned", <<WarnNoMeaningful>>, processed_commits)
           ELSE CliStep("load", <<>>, processed_commits)

\* line 207: load_model() loads or raises
CliLoadModel ==
    /\ op = "analyze_repository" /\ phase = "load"
    /\ \/ CliStep("classify", <<"load_model">>, commits_in)
       \/ CliStep("raised", <<>>, commits_in)

\* line 208: every commit gets a label
CliClassify ==
    /\ op = "analyze_repository" /\ phase = "classify"
    /\ \E labels \in [DOMAIN commits_in -> CliLabels] :
          CliStep("report", <<"analyze_commit_messages">>,
                  [k \in DOMAIN commits_in |-> Put(commits_in[k], "sentiment", labels[k])])

\* lines 241-242: generate_json_report, whose sentiment_counts has no key for
\* a label outside POSITIVE, NEUTRAL, NEGATIVE
CliReport ==
    /\ op = "analyze_repository" /\ phase = "report"
    /\ IF \E k \in DOMAIN commits_in : commits_in[k].sentiment.sentiment \notin Categories
       THEN CliStep("raised", <<>>, commits_in)
       ELSE \E generate_visualizations \in BOOLEAN :
               CliStep(IF generate_visualizations THEN "visualize" ELSE "returned",
                       <<"codemood_report.json">>, commits_in)

\* lines 245-248
CliVisualize ==
    /\ op = "analyze_repository" /\ phase = "visualize"
    /\ CliStep("returned", <<"codemood_graph.png">>, commits_in)

NextCli ==
    \/ CliExtractCommits
    \/ CliExtractAdditional
    \/ CliPreprocess
    \/ CliLoadModel
    \/ CliClassify
    \/ CliReport
    \/ CliVisualize

SpecCli == InitCli /\ [][NextCli]_vars

\* the repository gave get_commit_messages this list
Yields(commits) ==
    /\ ~get_commit_messages(arg).raised
    /\ get_commit_messages(arg).value = commits

YieldsNoMeaningfulCommit ==
    /\ ~get_commit_messages(arg).raised
    /\ get_commit_messages(arg).value # <<>>
    /\ \A k \in DOMAIN get_commit_messages(arg).value :
          ~IsMeaningful(clean_commit_message(get_commit_messages(arg).value[k].message),
                        MinLengthDefault)

Logged(event) == \E k \in DOMAIN report : report[k] = event

NothingAnalyzed ==
    /\ ~Logged("load_model") /\ ~Logged("analyze_commit_messages")
    /\ ~Logged("codemood_report.json") /\ ~Logged("codemood_graph.png")

(* C25: for a repository that yields no commits analyze_repository logs the
   warning "No commits found in repository" and returns normally, and for one
   that yields no meaningful commit after preprocessing it logs the warning
   of that case and returns normally: no exception, the model is never
   loaded, nothing is classified, no report or visualization is written.  A
   report is written only after the model was loaded and the commits were
   classified, in that order. *)
C25_NoCommitsWarnsAndReturns ==
    /\ Yields(<<>>) /\ phase # "start" =>
          /\ phase = "returned"
          /\ report = <<WarnNoCommits>>
    /\ YieldsNoMeaningfulCommit /\ phase \notin {"start", "additional", "preprocess"} =>
          /\ phase = "returned"
          /\ report # <<>> /\ report[Len(report)] = WarnNoMeaningful
          /\ NothingAnalyzed
    /\ \A k \in DOMAIN report :
          report[k] = "codemood_report.json" =>
              \E i, j \in 1..(k - 1) :
                  i < j /\ report[i] = "load_model" /\ report[j] = "analyze_commit_messages"

\* the call on a repository without commits has returned
C25_Witness ==
    /\ op = "analyze_repository" /\ Yields(<<>>)
    /\ phase = "returned" /\ report = <<WarnNoCommits>>

\* the call on a repository with commits, none of them meaningful, has returned
C25_WitnessNoMeaningful ==
    /\ op = "analyze_repository" /\ YieldsNoMeaningfulCommit
    /\ phase = "returned" /\ Logged(WarnNoMeaningful)

\* a report and a visualization were written
C25_WitnessReport ==
    /\ op = "analyze_repository" /\ phase = "returned"
    /\ Logged("codemood_report.json") /\ Logged("codemood_graph.png")


-----------------------------------------------------------------------------
(* Claims about the buckets of the aggregate_* operations *)

Aggregating == op \in {"language", "region", "time"}

DerivedNames == {"average_confidence", "sentiment_distribution", "mood_score"}

HasDerived(b) == DOMAIN b \cap DerivedNames # {}

\* the buckets as the repository loop leaves them for the whole input
FoldedWhole == Aggregate(op, repositories).stats

\* while folding no bucket has a derived field; once finalized every bucket
\* has the three, computed from the counts and the confidences of the whole
\* input
DerivedOnlyWhenFinalized ==
    Aggregating =>
        /\ phase # "finalized" => \A k \in DOMAIN stats : ~HasDerived(stats[k])
        /\ phase = "finalized" =>
              /\ DOMAIN stats = DOMAIN FoldedWhole
              /\ \A k \in DOMAIN stats :
                    /\ DerivedNames \subseteq DOMAIN stats[k]
                    /\ \A f \in DerivedNames : stats[k][f] = DerivedFields(FoldedWhole[k])[f]
                    /\ stats[k].confidence_scores = FoldedWhole[k].confidence_scores
                    /\ stats[k].sentiment_counts = FoldedWhole[k].sentiment_counts

\* the derived fields appear in the one step that follows the last fold, and
\* nothing is folded after it
DerivedInOneLastStep ==
    Aggregating =>
        /\ phase = "finalized" => UNCHANGED vars
        /\ (\E k \in DOMAIN stats' : HasDerived(stats'[k])) /\ phase # "finalized" =>
              /\ repo_index > Len(repositories)
              /\ phase' = "finalized" /\ repo_index' = repo_index

(* C27: in each aggregate_* operation the derived fields of a bucket
   (average_confidence, sentiment_distribution, mood_score) are absent while
   repositories are being folded and are computed once per bucket, after the
   last commit of the last repository was folded, from the final counts and
   the complete confidence list; no fold step happens after finalization. *)
C27_DerivedFieldsOnceAfterLastFold ==
    []DerivedOnlyWhenFinalized /\ [][DerivedInOneLastStep]_vars

\* two repositories were folded and the buckets finalized
C27_Witness ==
    /\ Aggregating /\ phase = "finalized"
    /\ Len(repositories) >= 2
    /\ \E k \in DOMAIN stats :
          /\ Len(stats[k].confidence_scores) >= 2
          /\ DerivedNames \subseteq DOMAIN stats[k]


-----------------------------------------------------------------------------
(* Claims about the block comments *)

\* the lines of length > 3 of the bodies of the pairs, pair by pair
RECURSIVE LinesOfPairs(_, _, _)
LinesOfPairs(open, s, pairs) ==
    IF pairs = <<>> THEN <<>>
    ELSE LET lines == split_lines(BodyOf(open, s, pairs[1]))
             kept  == SelectSeq(lines, LAMBDA line : Len(str_strip(line)) > 3)
         IN  [k \in DOMAIN kept |-> str_strip(kept[k])] \o LinesOfPairs(open, s, Tail(pairs))

BranchStyle == CommentBranches[FirstBranch(Suffix(arg.file_path))].style

HasLineBreak(comment) == \E k \in DOMAIN comment : comment[k] = "\n"

(* C28: for both block-comment styles ('/* */' and '<!-- -->')
   get_comments_from_file takes each open/close pair as one non-greedy match
   and splits its body into lines, returning one comment per non-empty line
   of length > 3; a block that spans several lines is never returned as one
   multi-line string. *)
C28_BlockCommentsSplitIntoLines ==
    CommentsRead /\ FirstBranch(Suffix(arg.file_path)) # 0 =>
        /\ \A k \in DOMAIN ret.value : ~HasLineBreak(ret.value[k])
        /\ BranchStyle = "/* */" =>
              ret.value = LinesOfPairs(<<"/","*">>, arg.content,
                              PairStarts(<<"/","*">>, <<"*","/">>, arg.content, 1))
        /\ BranchStyle = "<!-- -->" =>
              ret.value = LinesOfPairs(<<"<","!","-","-">>, arg.content,
                              PairStarts(<<"<","!","-","-">>, <<"-","-",">">>, arg.content, 1))
                          \o TextsOf(LineOccurrences(readlines(arg.content), <<"/","/">>, 1))

(* What holds in place of C28, of the '/* */' style alone. *)
C28_SlashStarCommentsSplitIntoLines ==
    CommentsRead /\ FirstBranch(Suffix(arg.file_path)) # 0 /\ BranchStyle = "/* */" =>
        /\ \A k \in DOMAIN ret.value : ~HasLineBreak(ret.value[k])
        /\ ret.value = LinesOfPairs(<<"/","*">>, arg.content,
                            PairStarts(<<"/","*">>, <<"*","/">>, arg.content, 1))

\* a <!-- --> comment of two lines is returned as one string
C28_HtmlCommentKeptWhole ==
    /\ CommentsRead /\ FirstBranch(Suffix(arg.file_path)) # 0
    /\ BranchStyle = "<!-- -->"
    /\ arg.content = ContentHtmlLines
    /\ \E k \in DOMAIN ret.value : HasLineBreak(ret.value[k])

\* a /* */ comment of several lines is returned line by line
C28_SlashStarSplit ==
    /\ CommentsRead /\ FirstBranch(Suffix(arg.file_path)) # 0
    /\ BranchStyle = "/* */"
    /\ arg.content = ContentShortBlock
    /\ Len(ret.value) = 2


(* C29: after any sequence of repositories and commits folded by
   aggregate_by_language, aggregate_by_region or aggregate_by_time_period,
   every bucket has: total commit count = length of confidence_scores =
   POSITIVE + NEUTRAL + NEGATIVE counts, every count >= 0, and (language and
   region) total_repos = length of the bucket's repositories list; no bucket
   exists for a key that received no contribution. *)
C29_BucketCountsAgree ==
    Aggregating =>
        \A k \in DOMAIN stats :
            /\ stats[k].total_commits = Len(stats[k].confidence_scores)
            /\ stats[k].total_commits = SumValues(stats[k].sentiment_counts)
            /\ \A c \in DOMAIN stats[k].sentiment_counts : stats[k].sentiment_counts[c] >= 0
            /\ op \in {"language", "region"} =>
                  /\ stats[k].total_repos = Len(stats[k].repositories)
                  /\ stats[k].total_repos >= 1
            /\ stats[k].total_commits >= 1

\* a bucket that two repositories contributed to, mid-fold and finalized
C29_Witness ==
    /\ op \in {"language", "region"}
    /\ \E k \in DOMAIN stats :
          /\ stats[k].total_repos = 2
          /\ stats[k].total_commits >= 2
          /\ stats[k].sentiment_counts["POSITIVE"] >= 1


-----------------------------------------------------------------------------
(* Claim about cleaning a cleaned message *)

(* C30: clean_commit_message is idempotent, clean(clean(m)) = clean(m) for
   every message m, and a cleaned message never begins with "merge" or
   "revert" in any letter case. *)
C30_CleanIsIdempotent ==
    Cleaned =>
        /\ clean_commit_message(ret.value) = ret.value
        /\ ~BeginsWithMergeOrRevert(ret.value)

\* an issue reference before the word: "#12reVert" is cleaned to "reVert",
\* which is cleaned to ""
C30_RevertLeftByFirstCleaning ==
    /\ Cleaned
    /\ arg = <<"#","1","2","r","e","V","e","r","t">>
    /\ ret.value = <<"r","e","V","e","r","t">>
    /\ clean_commit_message(ret.value) = <<>>

=============================================================================
